---- MODULE Spec2Model ----
(***************************************************************************)
(* Grading engine of the repository: the execution sandbox                 *)
(* (app/submission/services/code_compiler.py, CodeRunner), the output      *)
(* judge (problem_Normalization) and the orchestrator's result             *)
(* normalisation (app/submission/crud/submission.py).                      *)
(*                                                                         *)
(* Text is a sequence of one-character strings, so that trimming and       *)
(* comparison are computed and not assumed.  A file path is a pair         *)
(* <<stem, ext>>: tempfile's random stem and the suffix.                   *)
(***************************************************************************)
EXTENDS Integers, Sequences, FiniteSets, TLC

\* ------------------------------------------------------------------ bounds
\* most test cases of one run_code call
MaxCases == 2
\* most test cases of each of two concurrent run_code calls
MaxConcCases == 1
\* size of the pool tempfile draws its random stems from
NumStems == 2

\* longest text handed to the judge when it is called on its own
MaxTextLen == 2

\* most test cases a problem stores, or a run_code request posts
MaxStoredCases == 2

\* most condition items handed to distribute_condition_scores
MaxItems == 3
\* most test results handed to generate_for_problem_type
MaxResults == 3
MaxConds == 2
\* longest pair of texts compared, longest text normalised
MaxPairLen == 3
MaxNormLen == 5
\* presence WebSocket connections to the one room
NumConns == 2
\* join requests one user makes
MaxRequests == 2

Calls == {1, 2}
Stems == 1..NumStems

\* ------------------------------------------------------------------- text
WS == {" ", "\n", "\t"}

RECURSIVE LStrip(_)
LStrip(s) == IF s # <<>> /\ Head(s) \in WS THEN LStrip(Tail(s)) ELSE s

RECURSIVE RStrip(_)
RStrip(s) ==
  IF s # <<>> /\ s[Len(s)] \in WS THEN RStrip(SubSeq(s, 1, Len(s) - 1)) ELSE s

\* str.strip()
Strip(s) == RStrip(LStrip(s))

\* ------------------------------------------------------------ rating modes
\* app.submission.schemas.RatingMode as bound last in the module: the enum
\* the runner and the orchestrator import (value of each member).
RunnerRatingMode == [HARD |-> "Hard", SPACE |-> "Space", REGEX |-> "Regex", NONE |-> "None"]

\* problem_Normalization.RatingMode, the enum compare() tests against.
RatingMode == [HARD |-> "hard", SPACE |-> "space", REGEX |-> "regex", NONE |-> "none"]

RunnerModes == {RunnerRatingMode.HARD, RunnerRatingMode.SPACE,
                RunnerRatingMode.REGEX, RunnerRatingMode.NONE}

\* ------------------------------------------------------------ output judge
\* mutant of compare_hard: no trimming
compare_hard_Untrimmed(output, expected) == output = expected

\* (output or "").strip() == (expected or "").strip()
compare_hard(output, expected) == Strip(output) = Strip(expected)

\* mutant of CollapseWS: every pair of whitespace becomes one space
RECURSIVE CollapseWS_Pairs(_)
CollapseWS_Pairs(s) ==
  IF s = <<>> THEN <<>>
  ELSE IF Len(s) >= 2 /\ s[1] \in WS /\ s[2] \in WS
       THEN <<" ">> \o CollapseWS_Pairs(Tail(Tail(s)))
       ELSE <<IF Head(s) = "\n" THEN " " ELSE Head(s)>> \o CollapseWS_Pairs(Tail(s))

\* one pass of re.sub(r'\s+', ' ', text): every maximal run of whitespace
\* becomes one space
RECURSIVE CollapseWS(_)
CollapseWS(s) ==
  IF s = <<>> THEN <<>>
  ELSE IF Head(s) \in WS
       THEN <<" ">> \o CollapseWS(LStrip(s))
       ELSE <<Head(s)>> \o CollapseWS(Tail(s))

Brackets == {"[", "]", "(", ")", "{", "}"}

\* re.sub(r'\s*([\[\]\(\)\{\}])\s*', r'\1', text): whitespace on either
\* side of a bracket character is dropped
RECURSIVE StripAroundBrackets(_)
StripAroundBrackets(s) ==
  IF s = <<>> THEN <<>>
  ELSE IF Head(s) \in Brackets
       THEN <<Head(s)>> \o StripAroundBrackets(LStrip(Tail(s)))
       ELSE IF Head(s) \in WS /\ LStrip(s) # <<>> /\ Head(LStrip(s)) \in Brackets
            THEN StripAroundBrackets(LStrip(s))
            ELSE <<Head(s)>> \o StripAroundBrackets(Tail(s))

\* re.sub(r',\s*', ',', text)
RECURSIVE StripAfterComma(_)
StripAfterComma(s) ==
  IF s = <<>> THEN <<>>
  ELSE IF Head(s) = ","
       THEN <<",">> \o StripAfterComma(LStrip(Tail(s)))
       ELSE <<Head(s)>> \o StripAfterComma(Tail(s))

normalize_space(text) == Strip(StripAfterComma(StripAroundBrackets(CollapseWS(text))))

compare_space(output, expected) == normalize_space(output) = normalize_space(expected)

\* The pattern dialect of the model: literal characters, "." and a postfix
\* "*"; "(" opens a group that nothing in the dialect closes.  re.compile
\* raises re.error for an unterminated group, for a "*" with nothing to
\* repeat and for a repeated "*".
RegexValid(p) ==
  \A i \in 1..Len(p) :
    /\ p[i] # "("
    /\ (p[i] = "*" => (i > 1 /\ p[i - 1] # "*"))

\* DOTALL: "." matches every character, the newline included
AtomMatches(a, ch) == a = "." \/ a = ch

\* pattern.fullmatch(s) for a valid pattern of the dialect
RECURSIVE FullMatch(_, _)
FullMatch(p, s) ==
  IF p = <<>> THEN s = <<>>
  ELSE IF Len(p) >= 2 /\ p[2] = "*"
       THEN \/ FullMatch(Tail(Tail(p)), s)
            \/ (s # <<>> /\ AtomMatches(p[1], Head(s)) /\ FullMatch(p, Tail(s)))
       ELSE s # <<>> /\ AtomMatches(p[1], Head(s)) /\ FullMatch(Tail(p), Tail(s))

\* mutant of compare_regex: a pattern that does not compile is matched as written
compare_regex_Unguarded(output, expected) ==
  FullMatch(Strip(expected), Strip(output))

\* except re.error: return False
compare_regex(output, expected) ==
  IF RegexValid(Strip(expected))
  THEN FullMatch(Strip(expected), Strip(output))
  ELSE FALSE

\* problem_Normalization.compare: the mode is tested with == against the
\* members of problem_Normalization.RatingMode; a str-mixin enum member
\* equals another exactly when the values are the same string.
compare(output, expected, rating_mode) ==
  IF rating_mode = RatingMode.HARD THEN compare_hard(output, expected)
  ELSE IF rating_mode = RatingMode.SPACE THEN compare_space(output, expected)
  ELSE IF rating_mode = RatingMode.REGEX THEN compare_regex(output, expected)
  ELSE IF rating_mode = RatingMode.NONE THEN TRUE
  ELSE FALSE

\* re.compile(pattern) without flags: "." matches every character but the
\* newline
AtomMatchesNoFlags(a, ch) == (a = "." /\ ch # "\n") \/ (a # "." /\ a = ch)

RECURSIVE FullMatchNoFlags(_, _)
FullMatchNoFlags(p, s) ==
  IF p = <<>> THEN s = <<>>
  ELSE IF Len(p) >= 2 /\ p[2] = "*"
       THEN \/ FullMatchNoFlags(Tail(Tail(p)), s)
            \/ (s # <<>> /\ AtomMatchesNoFlags(p[1], Head(s)) /\ FullMatchNoFlags(p, Tail(s)))
       ELSE s # <<>> /\ AtomMatchesNoFlags(p[1], Head(s)) /\ FullMatchNoFlags(Tail(p), Tail(s))

\* compare_regex of the aprofi_backend-jy__v0_test tree
compare_regex_jy(output, expected) ==
  IF RegexValid(Strip(expected))
  THEN FullMatchNoFlags(Strip(expected), Strip(output))
  ELSE FALSE

\* problem_Normalization.compare of the aprofi_backend-jy__v0_test tree:
\* compare_hard and normalize_space are the same text functions; there is
\* no branch for NONE
compare_jy(output, expected, rating_mode) ==
  IF rating_mode = RatingMode.HARD THEN compare_hard(output, expected)
  ELSE IF rating_mode = RatingMode.SPACE THEN compare_space(output, expected)
  ELSE IF rating_mode = RatingMode.REGEX THEN compare_regex_jy(output, expected)
  ELSE FALSE

\* CodeRunner._judge: the first try returns bool(compare(...)); compare
\* raises nothing, so the fallbacks after it are never entered.
_judge(output, expected, rating_mode) == compare(output, expected, rating_mode)

\* ------------------------------------------------------- language registry
NoCmd == <<>>

language_configs ==
  [ python     |-> [file_ext |-> ".py",   compile_cmd |-> NoCmd,
                    run_cmd |-> <<"python", "{file}">>],
    java       |-> [file_ext |-> ".java", compile_cmd |-> <<"javac", "{file}">>,
                    run_cmd |-> <<"java", "{class_name}">>],
    cpp        |-> [file_ext |-> ".cpp",
                    compile_cmd |-> <<"g++", "-O2", "-std=c++17", "-o", "{exe}", "{file}">>,
                    run_cmd |-> <<"./{exe}">>],
    c          |-> [file_ext |-> ".c",
                    compile_cmd |-> <<"gcc", "-O2", "-std=c17", "-o", "{exe}", "{file}">>,
                    run_cmd |-> <<"./{exe}">>],
    javascript |-> [file_ext |-> ".js",   compile_cmd |-> NoCmd,
                    run_cmd |-> <<"node", "{file}">>] ]

Registered == DOMAIN language_configs

\* the binaries the registry names
Binaries == {"python", "java", "javac", "g++", "gcc", "node"}

\* "{" in b: the command words that are templates
IsTemplate(b) == b \in {"./{exe}", "{file}", "{exe}", "{class_name}"}

\* CodeRunner._check_runtime, for a registered language: <<ok, msg>>; the
\* message is identified by the binary it names.
RuntimeBins(language) ==
  LET cfg == language_configs[language]
  IN  <<cfg.run_cmd[1]>> \o
      (IF cfg.compile_cmd # NoCmd THEN <<cfg.compile_cmd[1]>> ELSE <<>>)

RECURSIVE FirstMissing(_, _)
FirstMissing(bins, have) ==
  IF bins = <<>> THEN "" 
  ELSE IF ~IsTemplate(Head(bins)) /\ Head(bins) \notin have THEN Head(bins)
       ELSE FirstMissing(Tail(bins), have)

\* mutant of _check_runtime: only the run command's binary is looked for
_check_runtime_RunCmdOnly(language, have) ==
  LET b == FirstMissing(<<language_configs[language].run_cmd[1]>>, have)
  IN  IF b = "" THEN <<TRUE, "">> ELSE <<FALSE, b>>

_check_runtime(language, have) ==
  LET b == FirstMissing(RuntimeBins(language), have)
  IN  IF b = "" THEN <<TRUE, "">> ELSE <<FALSE, b>>

\* ------------------------------------------------------------ result records
\* ExecutionStatus as bound last in app.submission.schemas: an enum member,
\* with a name and a value; RunnerTestResult.status is a plain str.
_ES(name) ==
  [kind |-> "enum", name |-> name,
   value |-> CASE name = "SUCCESS" -> "success"
               [] name = "ERROR"   -> "error"
               [] name = "TIMEOUT" -> "timeout"]

StrStatus(s) == [kind |-> "str", name |-> "", value |-> s]

\* OverallStatus as bound last in app.submission.schemas, through _OS
_OS(name) ==
  CASE name = "SUCCESS" -> "success"
    [] name = "FAILED"  -> "failed"
    [] name = "PARTIAL" -> "partial"

NoError == [kind |-> "none", detail |-> ""]
Err(kind, detail) == [kind |-> kind, detail |-> detail]

\* run_code, missing runtime: one ERROR dict per test case, all with msg
MissingRuntimeResults(tcs, msg) ==
  [i \in 1..Len(tcs) |->
     [test_case_index |-> i - 1, status |-> _ES("ERROR"), output |-> <<>>,
      error |-> Err("missing_runtime", msg), passed |-> FALSE,
      input |-> tcs[i].input, expected_output |-> tcs[i].expected_output]]

\* run_code, compilation failed: one synthetic ERROR dict
CompileFailureResults(error) ==
  << [test_case_index |-> 0, status |-> _ES("ERROR"), output |-> <<>>,
      error |-> Err("compilation_error", error), passed |-> FALSE,
      input |-> <<>>, expected_output |-> <<>>] >>

\* _run_test_case, the process ended within the timeout
SuccessResult(i, tc, rating_mode, stdout, stderr) ==
  [test_case_index |-> i, status |-> StrStatus("SUCCESS"), output |-> Strip(stdout),
   error |-> IF stderr # "" THEN Err("stderr", stderr) ELSE NoError,
   passed |-> _judge(Strip(stdout), tc.expected_output, rating_mode),
   input |-> tc.input, expected_output |-> tc.expected_output]

\* mutant of TimeoutResult: a timed-out case with nothing expected passes
TimeoutResult_PassIfNothingExpected(i, tc) ==
  [test_case_index |-> i, status |-> StrStatus("TIMEOUT"), output |-> <<>>,
   error |-> Err("message", "Execution timed out"),
   passed |-> (tc.expected_output = <<>>),
   input |-> tc.input, expected_output |-> tc.expected_output]

\* _run_test_case, except subprocess.TimeoutExpired
TimeoutResult(i, tc) ==
  [test_case_index |-> i, status |-> StrStatus("TIMEOUT"), output |-> <<>>,
   error |-> Err("message", "Execution timed out"), passed |-> FALSE,
   input |-> tc.input, expected_output |-> tc.expected_output]

\* _run_test_case, except Exception as e
ErrorResult(i, tc, e) ==
  [test_case_index |-> i, status |-> StrStatus("ERROR"), output |-> <<>>,
   error |-> Err("exception", e), passed |-> FALSE,
   input |-> tc.input, expected_output |-> tc.expected_output]

\* mutant of RunCaseCatches: only TimeoutExpired is caught
RunCaseCatches_TimeoutOnly(exc) == exc = "TimeoutExpired"

\* the except clauses of _run_test_case: TimeoutExpired, then Exception
RunCaseCatches(exc) == exc \in {"TimeoutExpired", "OSError", "AttributeError"}

\* mutant of LoopNext: the loop stops at the first TIMEOUT or ERROR result
LoopNext_BreakOnFailure(i, r, n) ==
  IF r.status.value \in {"TIMEOUT", "ERROR"} THEN n + 1 ELSE i + 1

\* run_code: for i, tc in enumerate(test_cases), whatever result r case i
\* had (i counts from 1 here, n is len(test_cases))
LoopNext(i, r, n) == i + 1

\* run_code: overall_status from the number of passed results
OverallOf(rs, n) ==
  LET passed_count == Cardinality({i \in DOMAIN rs : rs[i].passed})
  IN  IF passed_count = n THEN _OS("SUCCESS")
      ELSE IF passed_count = 0 THEN _OS("FAILED")
      ELSE _OS("PARTIAL")

\* ------------------------------------------------------------ peak sampler
\* _sample_peak_rss returns (stop, t, peak): an Event, a Thread, a list
SamplerTuple == <<"Event", "Thread", "list">>

\* _run_test_case: stop, t, peak = _sample_peak_rss(proc)
RunBinding == [stop |-> SamplerTuple[1], t |-> SamplerTuple[2], peak |-> SamplerTuple[3]]

\* _compile_code: peak, stop, t = _sample_peak_rss(proc)
CompileBinding == [peak |-> SamplerTuple[1], stop |-> SamplerTuple[2], t |-> SamplerTuple[3]]

\* the finally clause "stop.set(); t.join()" on a binding b: which of the
\* two calls take effect before an AttributeError ends the clause
FinallyOf(b) ==
  [set |-> b.stop = "Event",
   join |-> b.stop = "Event" /\ b.t = "Thread",
   raises |-> ~(b.stop = "Event" /\ b.t = "Thread")]

\* ------------------------------------------------- orchestrator: normalising
\* str.upper() on the status words
Upper(w) ==
  CASE w \in {"success", "SUCCESS"} -> "SUCCESS"
    [] w \in {"error", "ERROR"}     -> "ERROR"
    [] w \in {"timeout", "TIMEOUT"} -> "TIMEOUT"
    [] w \in {"failed", "FAILED"}   -> "FAILED"
    [] OTHER -> w

\* one element of _normalize_runner_results: d is the dict of a result
NormalizeOne(d) ==
  LET st_str ==
        IF "status" \notin DOMAIN d THEN ""
        ELSE IF d.status.kind = "enum" THEN Upper(d.status.name)
        ELSE Upper(d.status.value)
      err == IF "error" \in DOMAIN d THEN d.error ELSE NoError
      passed ==
        IF "passed" \in DOMAIN d THEN d.passed
        ELSE IF st_str \in {"SUCCESS", "PASSED", "OK"} THEN TRUE
        ELSE IF st_str \in {"FAILED", "FAIL", "ERROR", "TIMEOUT"} THEN FALSE
        ELSE IF d.expected_output # <<>> THEN d.output = d.expected_output
        ELSE err = NoError
      status ==
        IF st_str = ""
        THEN (IF err # NoError THEN "ERROR"
              ELSE IF passed THEN "SUCCESS" ELSE "FAILED")
        ELSE IF st_str \in {"OK", "PASSED"} THEN "SUCCESS"
        ELSE IF st_str = "FAIL" THEN "FAILED"
        ELSE st_str
  IN  [test_case_index |-> d.test_case_index, status |-> status,
       output |-> d.output, error |-> err, passed |-> passed,
       input |-> d.input, expected_output |-> d.expected_output]

_normalize_runner_results(rs) == [i \in DOMAIN rs |-> NormalizeOne(rs[i])]

\* CodeRunner.MEMORY_LIMIT, in bytes
MEMORY_LIMIT == 536870912

\* ------------------------------------------------------------------- files
NoPath == <<0, "">>
SourcePath(stem, ext) == <<stem, ext>>
\* os.path.splitext(f.name)[0]: the path without its suffix
BaseOf(path) == <<path[1], "">>
\* f"{base_name}.class"
ClassFileOf(base) == <<base[1], ".class">>

\* ---------------------------------------------------------------- processes
\* what Popen applies to the child before it runs: no preexec_fn is given
PopenLimits == {}

NewProc(c, kind, i) ==
  [call |-> c, kind |-> kind, idx |-> i, running |-> TRUE, timed_out |-> FALSE,
   limits |-> PopenLimits, sampler |-> "running", stop_set |-> FALSE,
   joined |-> FALSE, emitted |-> FALSE]

\* the process record after the finally clause of binding b
AfterFinally(p, b) ==
  [p EXCEPT !.stop_set = FinallyOf(b).set,
            !.joined = FinallyOf(b).join,
            !.sampler = IF FinallyOf(b).join THEN "exited" ELSE @,
            !.emitted = TRUE]

\* exit codes a compiler can end with: javac rejects every file written by
\* _prepare_code_file, whose public class Solution is in tmp<stem>.java
CompileExitCodes(lang) == IF lang = "java" THEN {1} ELSE {0, 1}

\* ------------------------------------------------------------------ inputs
Languages == Registered \cup {"go"}

TestCasePool ==
  { [input |-> <<>>, expected_output |-> <<"h", "i">>],
    [input |-> <<"1">>, expected_output |-> <<>>] }

CaseLists == UNION {[1..n -> TestCasePool] : n \in 0..MaxCases}

InstalledOptions == {Binaries} \cup {Binaries \ {b} : b \in Binaries}

Stdouts == { <<"h", "i", "\n">>, <<"n", "o">> }
Stderrs == {"", "Traceback"}

\* ------------------------------------------------------------------- state
VARIABLES
  installed,    \* binaries shutil.which finds
  language,     \* per call: argument of run_code
  test_cases,   \* per call: argument of run_code
  rating_mode,  \* per call: argument of run_code
  pc,           \* per call: position in run_code
  file_path,    \* per call: local of run_code
  base_name,    \* per call: local of run_code
  idx,          \* per call: the loop's position, from 1
  cur,          \* per call: the process communicate() waits for (0: none)
  results,      \* per call: the "results" list built so far
  compiled,     \* per call: run_code's "success" of _compile_code, once known
  out,          \* per call: what run_code returns or raises
  norm,         \* per call: _normalize_runner_results of the returned list
  fs,           \* the paths that exist in the temp directory
  procs,        \* every process spawned so far, in spawn order
  made          \* per call: the paths created by it or by its compiler

\* the judge called on its own (problem_Normalization.compare)
VARIABLES
  judge_in,     \* the arguments of one compare call, and the copy called
  judge_out     \* whether the call has returned, and what

\* rating-mode resolution of the orchestrator's three entry points
VARIABLES
  entry,        \* "coding", "debugging" (grade_and_save) or "run_code"
  requested,    \* pb.rating_mode / body.rating_mode
  pb_expected,  \* expected_output of each stored test case, as stored
  runner_cases, \* expected_output of each test case handed to run_code
  handed        \* rating_mode handed to run_code ("unset" before)

\* grade_and_save: the condition checks and their merge
VARIABLES
  cpc,          \* position in the condition block
  codes,        \* payload.codes
  conds,        \* problem_conditions_raw
  run0,         \* output, expected_output of raw_results[0]; summed time
  rule_checks,  \* rule_checks
  gpt_log,      \* what happened to the semantic evaluator
  gpt_checks,   \* gpt_checks
  merged,       \* merged
  cexc          \* the exception that left grade_and_save ("" for none)

\* grade_and_save: score distribution and generate_for_problem_type
VARIABLES
  spc,          \* position in the scoring block
  cond_items,   \* cond_items
  total_points, \* POINTS_FOR_CONDITIONS, in hundredths of a point
  cond_earned,  \* cond_earned, in hundredths
  test_results, \* raw_results handed to generate_for_problem_type
  max_points,   \* max_points, in hundredths
  ai_res,       \* what generate_for_problem_type returned
  txt_in,       \* the texts a text function is called on
  txt_out,      \* what it returned
  ws_conn,      \* every presence WebSocket: where its handler is, its entries in
                \* room_connections and connection_session, what it last joined as
  redis_set,    \* the Redis set presence:{roomId}
  redis_data,   \* the field active of every hash user_data:{userId}:{sessionId}
  last_update,  \* the user ids of the last presence_update sent
  grp_exists,   \* the group has a row with deleted_at NULL
  grp_member,   \* the group_user row of every user: none, active or soft-deleted
  grp_requests, \* the group_user_request rows of every user, oldest first
  grp_last      \* the last call on the group: what it was and how it ended

runnerVars == <<installed, language, test_cases, rating_mode, pc, file_path, base_name,
                idx, cur, results, compiled, out, norm, fs, procs, made>>
judgeVars == <<judge_in, judge_out>>
modeVars == <<entry, requested, pb_expected, runner_cases, handed>>
condVars == <<cpc, codes, conds, run0, rule_checks, gpt_log, gpt_checks, merged, cexc>>
scoreVars == <<spc, cond_items, total_points, cond_earned, test_results, max_points, ai_res>>
textVars == <<txt_in, txt_out>>
presVars == <<ws_conn, redis_set, redis_data, last_update>>
groupVars == <<grp_exists, grp_member, grp_requests, grp_last>>
sideVars == <<textVars, presVars, groupVars>>
gradeVars == <<judgeVars, modeVars, condVars, scoreVars, sideVars>>

vars == <<runnerVars, gradeVars>>

\* no compare call of its own
JudgeIdle ==
  /\ judge_in = [copy |-> "none", output |-> <<>>, expected |-> <<>>, rating_mode |-> ""]
  /\ judge_out = [done |-> FALSE, value |-> FALSE]

\* no entry point resolving a mode
ModeIdle ==
  /\ entry = "none"
  /\ requested = <<>>
  /\ pb_expected = <<>>
  /\ runner_cases = <<>>
  /\ handed = "unset"

\* grade_and_save not in its condition block
CondIdle ==
  /\ cpc = "off"
  /\ codes = <<>>
  /\ conds = <<>>
  /\ run0 = [output |-> <<>>, expected_output |-> <<>>, execution_time |-> 0]
  /\ rule_checks = <<>>
  /\ gpt_log = [construct |-> "none", batch |-> "none", single |-> <<>>]
  /\ gpt_checks = <<>>
  /\ merged = <<>>
  /\ cexc = ""

\* grade_and_save not in its scoring block
ScoreIdle ==
  /\ spc = "off"
  /\ cond_items = <<>>
  /\ total_points = 0
  /\ cond_earned = 0
  /\ test_results = <<>>
  /\ max_points = 0
  /\ ai_res = [kind |-> "none"]

\* no text function called on its own
TextIdle ==
  /\ txt_in = [output |-> <<>>, expected |-> <<>>]
  /\ txt_out = [kind |-> "none", value |-> FALSE, once |-> <<>>, twice |-> <<>>]

\* the users of the room; a session id is the number of the connection that uses it
Users == {"u1", "u2"}
Conns == 1..NumConns
SessionKeys == Users \X Conns
NoSession == <<>>

\* no presence WebSocket
PresenceIdle ==
  /\ ws_conn = [w \in Conns |-> [st |-> "off", in_room |-> FALSE,
                                  session |-> NoSession, joined_as |-> NoSession]]
  /\ redis_set = {}
  /\ redis_data = [k \in SessionKeys |-> "absent"]
  /\ last_update = {}

NoCall == [op |-> "none", user |-> "", status |-> "", was_member |-> FALSE,
           had_pending |-> FALSE]

\* no call on a group
GroupIdle ==
  /\ grp_exists = FALSE
  /\ grp_member = [u \in Users |-> "none"]
  /\ grp_requests = [u \in Users |-> <<>>]
  /\ grp_last = NoCall

SideIdle == TextIdle /\ PresenceIdle /\ GroupIdle

GradeIdle == JudgeIdle /\ ModeIdle /\ CondIdle /\ ScoreIdle /\ SideIdle

NoOut == [kind |-> "none", success |-> FALSE, overall_status |-> "", exc |-> ""]
Return(success, overall) ==
  [kind |-> "return", success |-> success, overall_status |-> overall, exc |-> ""]
Raise(exc) == [kind |-> "raise", success |-> FALSE, overall_status |-> "", exc |-> exc]

InitCommon ==
  /\ file_path = [c \in Calls |-> NoPath]
  /\ base_name = [c \in Calls |-> NoPath]
  /\ idx = [c \in Calls |-> 1]
  /\ cur = [c \in Calls |-> 0]
  /\ results = [c \in Calls |-> <<>>]
  /\ compiled = [c \in Calls |-> "none"]
  /\ out = [c \in Calls |-> NoOut]
  /\ norm = [c \in Calls |-> <<>>]
  /\ fs = {}
  /\ procs = <<>>
  /\ made = [c \in Calls |-> {}]

\* one run_code call, with any arguments
Init ==
  /\ installed \in InstalledOptions
  /\ \E l \in Languages, tcs \in CaseLists, m \in RunnerModes :
       /\ language = [c \in Calls |-> IF c = 1 THEN l ELSE "python"]
       /\ test_cases = [c \in Calls |-> IF c = 1 THEN tcs ELSE <<>>]
       /\ rating_mode = [c \in Calls |-> IF c = 1 THEN m ELSE RunnerRatingMode.NONE]
  /\ pc = [c \in Calls |-> IF c = 1 THEN "start" ELSE "off"]
  /\ InitCommon
  /\ GradeIdle

\* ------------------------------------------------------------------ run_code
Cfg(c) == language_configs[language[c]]

\* run_code: ok, msg = self._check_runtime(language); if not ok: return ...
\* An unregistered language makes _check_runtime's registry lookup raise
\* KeyError, which run_code does not catch.
CheckRuntime(c) ==
  /\ pc[c] = "start"
  /\ IF language[c] \notin Registered
     THEN /\ out' = [out EXCEPT ![c] = Raise("KeyError")]
          /\ pc' = [pc EXCEPT ![c] = "cleanup"]
          /\ UNCHANGED results
     ELSE LET chk == _check_runtime(language[c], installed)
          IN  IF ~chk[1]
              THEN /\ results' = [results EXCEPT
                                    ![c] = MissingRuntimeResults(test_cases[c], chk[2])]
                   /\ out' = [out EXCEPT ![c] = Return(FALSE, _OS("FAILED"))]
                   /\ pc' = [pc EXCEPT ![c] = "cleanup"]
              ELSE /\ pc' = [pc EXCEPT ![c] = "prepare"]
                   /\ UNCHANGED <<results, out>>
  /\ UNCHANGED gradeVars
  /\ UNCHANGED <<installed, language, test_cases, rating_mode, file_path, base_name,
                 idx, cur, compiled, norm, fs, procs, made>>

\* _prepare_code_file: NamedTemporaryFile(suffix=ext, delete=False) creates a
\* file whose full name does not exist yet; f.write(code) may raise (the
\* disk is full), and the names are bound in run_code only on return.
PrepareCodeFile(c) ==
  /\ pc[c] = "prepare"
  /\ \E stem \in Stems, wrote \in BOOLEAN :
       LET path == SourcePath(stem, Cfg(c).file_ext)
       IN  /\ path \notin fs
           /\ fs' = fs \cup {path}
           /\ made' = [made EXCEPT ![c] = @ \cup {path}]
           /\ IF wrote
              THEN /\ file_path' = [file_path EXCEPT ![c] = path]
                   /\ base_name' = [base_name EXCEPT ![c] = BaseOf(path)]
                   /\ pc' = [pc EXCEPT ![c] =
                               IF Cfg(c).compile_cmd # NoCmd THEN "compile" ELSE "loop"]
                   /\ UNCHANGED out
              ELSE /\ out' = [out EXCEPT ![c] = Raise("ENOSPC")]
                   /\ pc' = [pc EXCEPT ![c] = "cleanup"]
                   /\ UNCHANGED <<file_path, base_name>>
  /\ UNCHANGED gradeVars
  /\ UNCHANGED <<installed, language, test_cases, rating_mode, idx, cur, results,
                 compiled, norm, procs>>

\* _compile_code on what happened to the compiler: <<success, error>>.
\* ev.kind is "popen_raised", "exited" (with ev.code) or "timeout".
_compile_code(ev) ==
  IF ev.kind = "popen_raised" THEN <<FALSE, "OSError">>
  ELSE IF FinallyOf(CompileBinding).raises THEN <<FALSE, "AttributeError">>
  ELSE IF ev.kind = "timeout" THEN <<FALSE, "Compilation timed out">>
  ELSE <<ev.code = 0, "stderr">>

\* run_code after _compile_code returned r
AfterCompile(c, r) ==
  IF r[1]
  THEN /\ pc' = [pc EXCEPT ![c] = "loop"]
       /\ compiled' = [compiled EXCEPT ![c] = "ok"]
       /\ UNCHANGED <<results, out>>
  ELSE /\ results' = [results EXCEPT ![c] = CompileFailureResults(r[2])]
       /\ compiled' = [compiled EXCEPT ![c] = "failed"]
       /\ out' = [out EXCEPT ![c] = Return(FALSE, _OS("FAILED"))]
       /\ pc' = [pc EXCEPT ![c] = "cleanup"]

\* _compile_code: subprocess.Popen(cmd, ...) and the sampler's start
CompileSpawn(c) ==
  /\ pc[c] = "compile"
  /\ \E ok \in BOOLEAN :
       IF ok
       THEN /\ procs' = Append(procs, NewProc(c, "compile", 0))
            /\ cur' = [cur EXCEPT ![c] = Len(procs) + 1]
            /\ pc' = [pc EXCEPT ![c] = "compile_wait"]
            /\ UNCHANGED <<results, compiled, out>>
       ELSE /\ AfterCompile(c, _compile_code([kind |-> "popen_raised", code |-> 0]))
            /\ UNCHANGED <<procs, cur>>
  /\ UNCHANGED gradeVars
  /\ UNCHANGED <<installed, language, test_cases, rating_mode, file_path, base_name,
                 idx, norm, fs, made>>

\* gcc/g++ -o {exe}: a compiler that exits 0 has written the binary
CompilerOutput(c, code) ==
  IF code = 0 /\ language[c] \in {"c", "cpp"} THEN {base_name[c]} ELSE {}

\* _compile_code: communicate() returns, the compiler has exited
CompileFinish(c) ==
  /\ pc[c] = "compile_wait"
  /\ \E code \in CompileExitCodes(language[c]) :
       /\ procs' = [procs EXCEPT ![cur[c]] =
                      AfterFinally([@ EXCEPT !.running = FALSE], CompileBinding)]
       /\ fs' = fs \cup CompilerOutput(c, code)
       /\ made' = [made EXCEPT ![c] = @ \cup CompilerOutput(c, code)]
       /\ AfterCompile(c, _compile_code([kind |-> "exited", code |-> code]))
  /\ cur' = [cur EXCEPT ![c] = 0]
  /\ UNCHANGED gradeVars
  /\ UNCHANGED <<installed, language, test_cases, rating_mode, file_path, base_name,
                 idx, norm>>

\* _compile_code: communicate(timeout=TIMEOUT) raises TimeoutExpired; nothing
\* kills the compiler
CompileTimeout(c) ==
  /\ pc[c] = "compile_wait"
  /\ procs' = [procs EXCEPT ![cur[c]] =
                 AfterFinally([@ EXCEPT !.timed_out = TRUE], CompileBinding)]
  /\ AfterCompile(c, _compile_code([kind |-> "timeout", code |-> 0]))
  /\ cur' = [cur EXCEPT ![c] = 0]
  /\ UNCHANGED gradeVars
  /\ UNCHANGED <<installed, language, test_cases, rating_mode, file_path, base_name,
                 idx, norm, fs, made>>

\* run_code: results.append(r) and the loop's step
AppendResult(c, r) ==
  /\ results' = [results EXCEPT ![c] = Append(@, r)]
  /\ idx' = [idx EXCEPT ![c] = LoopNext(@, r, Len(test_cases[c]))]
  /\ pc' = [pc EXCEPT ![c] = "loop"]
  /\ UNCHANGED out

\* an exception exc inside the try of _run_test_case for case i
RunCaseRaised(c, exc) ==
  IF RunCaseCatches(exc)
  THEN AppendResult(c, IF exc = "TimeoutExpired"
                       THEN TimeoutResult(idx[c] - 1, test_cases[c][idx[c]])
                       ELSE ErrorResult(idx[c] - 1, test_cases[c][idx[c]], exc))
  ELSE /\ out' = [out EXCEPT ![c] = Raise(exc)]
       /\ pc' = [pc EXCEPT ![c] = "cleanup"]
       /\ UNCHANGED <<results, idx>>

\* _run_test_case: subprocess.Popen(cmd, ...) and the sampler's start
RunSpawn(c) ==
  /\ pc[c] = "loop"
  /\ idx[c] <= Len(test_cases[c])
  /\ \E ok \in BOOLEAN :
       IF ok
       THEN /\ procs' = Append(procs, NewProc(c, "run", idx[c] - 1))
            /\ cur' = [cur EXCEPT ![c] = Len(procs) + 1]
            /\ pc' = [pc EXCEPT ![c] = "run_wait"]
            /\ UNCHANGED <<results, out, idx>>
       ELSE /\ RunCaseRaised(c, "OSError")
            /\ UNCHANGED <<procs, cur>>
  /\ UNCHANGED gradeVars
  /\ UNCHANGED <<installed, language, test_cases, rating_mode, file_path, base_name,
                 compiled, norm, fs, made>>

\* _run_test_case: communicate() returns stdout and stderr, the process has
\* exited (its return code is not looked at); finally; the SUCCESS result
RunFinish(c) ==
  /\ pc[c] = "run_wait"
  /\ \E stdout \in Stdouts, stderr \in Stderrs :
       IF FinallyOf(RunBinding).raises
       THEN RunCaseRaised(c, "AttributeError")
       ELSE AppendResult(c, SuccessResult(idx[c] - 1, test_cases[c][idx[c]],
                                          rating_mode[c], stdout, stderr))
  /\ procs' = [procs EXCEPT ![cur[c]] =
                 AfterFinally([@ EXCEPT !.running = FALSE], RunBinding)]
  /\ cur' = [cur EXCEPT ![c] = 0]
  /\ UNCHANGED gradeVars
  /\ UNCHANGED <<installed, language, test_cases, rating_mode, file_path, base_name,
                 compiled, norm, fs, made>>

\* _run_test_case: communicate(timeout=TIMEOUT) raises TimeoutExpired;
\* finally; the TIMEOUT result.  Nothing kills the process.
RunTimeout(c) ==
  /\ pc[c] = "run_wait"
  /\ RunCaseRaised(c, IF FinallyOf(RunBinding).raises
                      THEN "AttributeError" ELSE "TimeoutExpired")
  /\ procs' = [procs EXCEPT ![cur[c]] =
                 AfterFinally([@ EXCEPT !.timed_out = TRUE], RunBinding)]
  /\ cur' = [cur EXCEPT ![c] = 0]
  /\ UNCHANGED gradeVars
  /\ UNCHANGED <<installed, language, test_cases, rating_mode, file_path, base_name,
                 compiled, norm, fs, made>>

\* run_code: the loop is over; overall_status; return
Finish(c) ==
  /\ pc[c] = "loop"
  /\ idx[c] > Len(test_cases[c])
  /\ out' = [out EXCEPT ![c] = Return(TRUE, OverallOf(results[c], Len(test_cases[c])))]
  /\ pc' = [pc EXCEPT ![c] = "cleanup"]
  /\ UNCHANGED gradeVars
  /\ UNCHANGED <<installed, language, test_cases, rating_mode, file_path, base_name,
                 idx, cur, results, compiled, norm, fs, procs, made>>

\* run_code, finally: the paths the clean-up unlinks when they exist
CleanupTargets(c) ==
  (IF file_path[c] # NoPath THEN {file_path[c]} ELSE {})
  \cup (IF language[c] \in {"c", "cpp"} THEN {base_name[c]}
        ELSE IF language[c] = "java" THEN {ClassFileOf(base_name[c])}
        ELSE {})

\* run_code, finally; then the return or the exception reaches the caller
Cleanup(c) ==
  /\ pc[c] = "cleanup"
  /\ fs' = fs \ CleanupTargets(c)
  /\ pc' = [pc EXCEPT ![c] = "done"]
  /\ UNCHANGED gradeVars
  /\ UNCHANGED <<installed, language, test_cases, rating_mode, file_path, base_name,
                 idx, cur, results, compiled, out, norm, procs, made>>

\* grade_and_save / run_code_and_log: _normalize_runner_results(run["results"])
Normalize(c) ==
  /\ pc[c] = "done"
  /\ out[c].kind = "return"
  /\ norm' = [norm EXCEPT ![c] = _normalize_runner_results(results[c])]
  /\ pc' = [pc EXCEPT ![c] = "normalized"]
  /\ UNCHANGED gradeVars
  /\ UNCHANGED <<installed, language, test_cases, rating_mode, file_path, base_name,
                 idx, cur, results, compiled, out, fs, procs, made>>

\* ------------------------------------------------------------- environment
\* a process nobody waits for any more ends by itself; a compiler that
\* ends with 0 writes its binary then
ProcExit(pid) ==
  /\ procs[pid].running
  /\ procs[pid].timed_out
  /\ procs' = [procs EXCEPT ![pid].running = FALSE]
  /\ \E code \in (IF procs[pid].kind = "compile"
                  THEN CompileExitCodes(language[procs[pid].call]) ELSE {1}) :
       LET c == procs[pid].call
           written == IF procs[pid].kind = "compile" THEN CompilerOutput(c, code) ELSE {}
       IN  /\ fs' = fs \cup written
           /\ made' = [made EXCEPT ![c] = @ \cup written]
  /\ UNCHANGED gradeVars
  /\ UNCHANGED <<installed, language, test_cases, rating_mode, pc, file_path,
                 base_name, idx, cur, results, compiled, out, norm>>

\* the sampler thread's loop ends by itself: stop is set, or
\* proc.is_running() is false
SamplerExit(pid) ==
  /\ procs[pid].sampler = "running"
  /\ procs[pid].stop_set \/ ~procs[pid].running
  /\ procs' = [procs EXCEPT ![pid].sampler = "exited"]
  /\ UNCHANGED gradeVars
  /\ UNCHANGED <<installed, language, test_cases, rating_mode, pc, file_path,
                 base_name, idx, cur, results, compiled, out, norm, fs, made>>

Next ==
  \/ \E c \in Calls : CheckRuntime(c)
  \/ \E c \in Calls : PrepareCodeFile(c)
  \/ \E c \in Calls : CompileSpawn(c)
  \/ \E c \in Calls : CompileFinish(c)
  \/ \E c \in Calls : CompileTimeout(c)
  \/ \E c \in Calls : RunSpawn(c)
  \/ \E c \in Calls : RunFinish(c)
  \/ \E c \in Calls : RunTimeout(c)
  \/ \E c \in Calls : Finish(c)
  \/ \E c \in Calls : Cleanup(c)
  \/ \E c \in Calls : Normalize(c)
  \/ \E pid \in DOMAIN procs : ProcExit(pid)
  \/ \E pid \in DOMAIN procs : SamplerExit(pid)

Spec == Init /\ [][Next]_vars

\* two run_code calls on the runner singleton (get_runner) at once, for
\* two submissions
ConcLanguages == {"python", "c", "cpp"}
ConcCaseLists == UNION {[1..n -> TestCasePool] : n \in 0..MaxConcCases}

InitConc ==
  /\ installed = Binaries
  /\ language \in [Calls -> ConcLanguages]
  /\ test_cases \in [Calls -> ConcCaseLists]
  /\ rating_mode = [c \in Calls |-> RunnerRatingMode.HARD]
  /\ pc = [c \in Calls |-> "start"]
  /\ InitCommon
  /\ GradeIdle

SpecConc == InitConc /\ [][Next]_vars

\* no run_code call
RunnerIdle ==
  /\ installed = Binaries
  /\ language = [c \in Calls |-> "python"]
  /\ test_cases = [c \in Calls |-> <<>>]
  /\ rating_mode = [c \in Calls |-> RunnerRatingMode.NONE]
  /\ pc = [c \in Calls |-> "off"]
  /\ InitCommon

\* ------------------------------------------------ the judge called on its own
JudgeAlphabet == {"a", " ", "(", "*", ","}
JudgeTexts == UNION {[1..n -> JudgeAlphabet] : n \in 0..MaxTextLen}
\* the members of both RatingMode enums
JudgeModes == RunnerModes \cup {RatingMode.HARD, RatingMode.SPACE,
                                RatingMode.REGEX, RatingMode.NONE}
\* the two trees that hold a problem_Normalization
JudgeCopies == {"app", "aprofi_backend-jy__v0_test"}

InitJudge ==
  /\ judge_in \in [copy : JudgeCopies, output : JudgeTexts, expected : JudgeTexts,
                    rating_mode : JudgeModes]
  /\ judge_out = [done |-> FALSE, value |-> FALSE]
  /\ RunnerIdle
  /\ SideIdle
  /\ ModeIdle
  /\ CondIdle
  /\ ScoreIdle

\* problem_Normalization.compare(output, expected, rating_mode)
Judge ==
  /\ ~judge_out.done
  /\ judge_in.copy # "none"
  /\ judge_out' =
       [done |-> TRUE,
        value |-> IF judge_in.copy = "app"
                  THEN compare(judge_in.output, judge_in.expected, judge_in.rating_mode)
                  ELSE compare_jy(judge_in.output, judge_in.expected,
                                  judge_in.rating_mode)]
  /\ UNCHANGED <<judge_in, runnerVars, modeVars, condVars, scoreVars, sideVars>>

NextJudge == Judge

SpecJudge == InitJudge /\ [][NextJudge]_vars

\* --------------------------------------- the text functions called on their own
PairAlphabet == {"a", " ", "\n"}
PairTexts == UNION {[1..n -> PairAlphabet] : n \in 0..MaxPairLen}
NormAlphabet == {"a", " ", "\n", ",", "(", "]"}
NormTexts == UNION {[1..n -> NormAlphabet] : n \in 0..MaxNormLen}

InitText ==
  /\ \/ txt_in \in [output : PairTexts, expected : PairTexts]
     \/ txt_in \in [output : NormTexts, expected : {<<>>}]
  /\ txt_out = [kind |-> "none", value |-> FALSE, once |-> <<>>, twice |-> <<>>]
  /\ PresenceIdle
  /\ GroupIdle
  /\ RunnerIdle
  /\ JudgeIdle
  /\ ModeIdle
  /\ CondIdle
  /\ ScoreIdle

\* problem_Normalization.compare(output, expected, RatingMode.HARD)
CompareHard ==
  /\ txt_out.kind = "none"
  /\ txt_out' = [kind |-> "hard",
                 value |-> compare(txt_in.output, txt_in.expected, RatingMode.HARD),
                 once |-> <<>>, twice |-> <<>>]
  /\ UNCHANGED <<txt_in, runnerVars, judgeVars, modeVars, condVars, scoreVars, presVars, groupVars>>

\* normalize_space applied to a text and to its own result
NormalizeTwice ==
  /\ txt_out.kind = "none"
  /\ txt_out' = [kind |-> "space", value |-> FALSE,
                 once |-> normalize_space(txt_in.output),
                 twice |-> normalize_space(normalize_space(txt_in.output))]
  /\ UNCHANGED <<txt_in, runnerVars, judgeVars, modeVars, condVars, scoreVars, presVars, groupVars>>

NextText == CompareHard \/ NormalizeTwice

SpecText == InitText /\ [][NextText]_vars

\* ---------------------------------------------------- rating-mode resolution
\* Python's None, or a str
PyNone == [is_none |-> TRUE, text |-> <<>>]
PyStr(text) == [is_none |-> FALSE, text |-> text]
\* bool(x) of None or a str
Truthy(x) == ~x.is_none /\ x.text # <<>>

\* str.lower(), letter by letter
UpperLetters == <<"A", "B", "C", "D", "E", "F", "G", "H", "I", "J", "K", "L", "M", "N", "O", "P", "Q", "R", "S", "T", "U", "V", "W", "X", "Y", "Z">>
LowerLetters == <<"a", "b", "c", "d", "e", "f", "g", "h", "i", "j", "k", "l", "m", "n", "o", "p", "q", "r", "s", "t", "u", "v", "w", "x", "y", "z">>
LowerChar(ch) ==
  IF \E i \in DOMAIN UpperLetters : UpperLetters[i] = ch
  THEN LowerLetters[CHOOSE i \in DOMAIN UpperLetters : UpperLetters[i] = ch]
  ELSE ch
ToLower(s) == [i \in DOMAIN s |-> LowerChar(s[i])]

\* the dict lookups of _map_rating_mode and _to_runner_mode: key -> member
ModeOfKey(val, keys) ==
  IF val = <<"h", "a", "r", "d">> /\ "hard" \in keys THEN RunnerRatingMode.HARD
  ELSE IF val = <<"s", "p", "a", "c", "e">> /\ "space" \in keys THEN RunnerRatingMode.SPACE
  ELSE IF val = <<"r", "e", "g", "e", "x">> /\ "regex" \in keys THEN RunnerRatingMode.REGEX
  ELSE RunnerRatingMode.NONE

\* _map_rating_mode(m): (m or "none").strip().lower(), then the dict
_map_rating_mode(m) ==
  ModeOfKey(ToLower(Strip(IF Truthy(m) THEN m.text ELSE <<"n", "o", "n", "e">>)),
            {"hard", "space", "regex", "none"})

\* _decide_rating_mode_for_debugging(pb, requested_mode), where the caller's
\* requested_mode is pb.rating_mode itself: what was requested if truthy,
\* else "hard".  The test cases are not looked at.
_decide_rating_mode_for_debugging(pb_rating_mode, requested_mode) ==
  IF Truthy(requested_mode) THEN requested_mode
  ELSE IF Truthy(pb_rating_mode) THEN pb_rating_mode
  ELSE PyStr(<<"h", "a", "r", "d">>)

\* _decide_rating_mode_for_coding(pb, requested): raw is pb.test_cases
_decide_rating_mode_for_coding(raw, requested_mode) ==
  LET has_any_expected == \E i \in DOMAIN raw : raw[i] # <<>>
  IN  IF has_any_expected THEN _map_rating_mode(requested_mode)
      ELSE RunnerRatingMode.NONE

\* str.rstrip("\n")
RECURSIVE RStripNewline(_)
RStripNewline(s) ==
  IF s # <<>> /\ s[Len(s)] = "\n" THEN RStripNewline(SubSeq(s, 1, Len(s) - 1)) ELSE s

\* SolveService._extract_test_cases: the expected_output of each TestCaseInput
_extract_test_cases(raw) == [i \in DOMAIN raw |-> RStripNewline(raw[i])]

\* _normalize_testcases: the expected_output of each posted test case
_normalize_testcases(raw) == [i \in DOMAIN raw |-> RStripNewline(raw[i])]

\* _to_runner_mode(value)
_to_runner_mode(value) ==
  IF ~Truthy(value) THEN RunnerRatingMode.NONE
  ELSE ModeOfKey(ToLower(Strip(value.text)), {"hard", "space", "regex"})

\* run_code_and_log, step 2: has_any_expected is taken on the normalised
\* test cases
ModeOfRunCode(tcs_data, requested_mode) ==
  LET has_any_expected == \E i \in DOMAIN tcs_data : tcs_data[i] # <<>>
  IN  IF has_any_expected THEN _to_runner_mode(requested_mode)
      ELSE RunnerRatingMode.NONE

RequestedPool ==
  {PyNone} \cup
  {PyStr(t) : t \in { <<>>, <<"h", "a", "r", "d">>, <<"H", "a", "r", "d">>,
                       <<" ", "H", "A", "R", "D", " ">>, <<"s", "p", "a", "c", "e">>,
                       <<"R", "e", "g", "e", "x">>, <<"n", "o", "n", "e">>,
                       <<"e", "a", "s", "y">> }}
ExpectedPool == { <<>>, <<"\n">>, <<"h", "i">> }
StoredCaseLists == UNION {[1..n -> ExpectedPool] : n \in 0..MaxStoredCases}
Entries == {"coding", "debugging", "run_code"}

InitMode ==
  /\ entry \in Entries
  /\ requested \in RequestedPool
  /\ pb_expected \in StoredCaseLists
  /\ runner_cases = <<>>
  /\ handed = "unset"
  /\ RunnerIdle
  /\ SideIdle
  /\ JudgeIdle
  /\ CondIdle
  /\ ScoreIdle

\* grade_and_save, identity "coding": test_cases, rating_mode
ResolveCoding ==
  /\ entry = "coding"
  /\ handed = "unset"
  /\ runner_cases' = _extract_test_cases(pb_expected)
  /\ handed' = _decide_rating_mode_for_coding(pb_expected, requested)
  /\ UNCHANGED <<entry, requested, pb_expected, runnerVars, judgeVars, condVars, scoreVars, sideVars>>

\* grade_and_save, identity "debugging": test_cases, rating_mode
ResolveDebugging ==
  /\ entry = "debugging"
  /\ handed = "unset"
  /\ runner_cases' = _extract_test_cases(pb_expected)
  /\ handed' = _map_rating_mode(_decide_rating_mode_for_debugging(requested, requested))
  /\ UNCHANGED <<entry, requested, pb_expected, runnerVars, judgeVars, condVars, scoreVars, sideVars>>

\* run_code_and_log, steps 1 and 2
ResolveRunCode ==
  /\ entry = "run_code"
  /\ handed = "unset"
  /\ runner_cases' = _normalize_testcases(pb_expected)
  /\ handed' = ModeOfRunCode(_normalize_testcases(pb_expected), requested)
  /\ UNCHANGED <<entry, requested, pb_expected, runnerVars, judgeVars, condVars, scoreVars, sideVars>>

NextMode == ResolveCoding \/ ResolveDebugging \/ ResolveRunCode

SpecMode == InitMode /\ [][NextMode]_vars

\* --------------------------------------------------------- condition checks
\* "sub in s" of two str
Contains(s, sub) ==
  \E i \in 1..(Len(s) - Len(sub) + 1) : SubSeq(s, i, i + Len(sub) - 1) = sub

\* str.split(): the words between runs of whitespace
RECURSIVE FirstWord(_)
FirstWord(s) ==
  IF s = <<>> \/ Head(s) \in WS THEN <<>> ELSE <<Head(s)>> \o FirstWord(Tail(s))
RECURSIVE Split(_)
Split(s) ==
  LET t == LStrip(s)
  IN  IF t = <<>> THEN <<>>
      ELSE <<FirstWord(t)>> \o Split(SubSeq(t, Len(FirstWord(t)) + 1, Len(t)))

\* s.split(sub)[-1]: what follows the last sub in s
RECURSIVE AfterLast(_, _)
AfterLast(s, sub) ==
  IF ~Contains(s, sub) THEN s
  ELSE LET i == CHOOSE k \in 1..Len(s) :
                  /\ SubSeq(s, k, k + Len(sub) - 1) = sub
                  /\ \A j \in 1..(k - 1) : SubSeq(s, j, j + Len(sub) - 1) # sub
       IN  AfterLast(SubSeq(s, i + Len(sub), Len(s)), sub)

Digits == <<"0", "1", "2", "3", "4", "5", "6", "7", "8", "9">>
IsDigit(ch) == \E d \in DOMAIN Digits : Digits[d] = ch
DigitValue(ch) == (CHOOSE d \in DOMAIN Digits : Digits[d] = ch) - 1

\* the leading run of digits of s, as a number (acc is the value so far)
RECURSIVE LeadingNumber(_, _)
LeadingNumber(s, acc) ==
  IF s # <<>> /\ IsDigit(Head(s))
  THEN LeadingNumber(Tail(s), 10 * acc + DigitValue(Head(s)))
  ELSE acc

\* re.search(r'(\d+(?:\.\d+)?)', text) for texts whose numbers are whole:
\* <<found, value>>
RECURSIVE SearchNumber(_)
SearchNumber(s) ==
  IF s = <<>> THEN <<FALSE, 0>>
  ELSE IF IsDigit(Head(s)) THEN <<TRUE, LeadingNumber(s, 0)>>
  ELSE SearchNumber(Tail(s))

\* str.isdigit()
IsDigitStr(s) == s # <<>> /\ \A i \in DOMAIN s : IsDigit(s[i])

\* a ConditionCheckResult; exc is the exception raised instead of it
CheckResult(condition, passed, feedback) ==
  [condition |-> condition.condition, is_required |-> condition.is_required,
   check_type |-> condition.check_type, passed |-> passed, feedback |-> feedback,
   exc |-> ""]
CheckRaised(condition, exc) ==
  [condition |-> condition.condition, is_required |-> condition.is_required,
   check_type |-> condition.check_type, passed |-> FALSE, feedback |-> "",
   exc |-> exc]

\* ConditionChecker.check_code_analysis_condition.  The pattern of the
\* recursion branch refers to group 1 and has no group: re.search raises
\* re.error for every code.
check_code_analysis_condition(condition, code) ==
  LET condition_text == ToLower(condition.condition)
      code_lower == ToLower(code)
      verdict(passed, yes, no) == CheckResult(condition, passed, IF passed THEN yes ELSE no)
  IN  IF Contains(condition_text, <<"f", "o", "r", " ", "l", "o", "o", "p">>)
      THEN verdict(Contains(code_lower, <<"f", "o", "r", " ">>), "for loop found", "for loop needed")
      ELSE IF Contains(condition_text, <<"w", "h", "i", "l", "e", " ", "l", "o", "o", "p">>)
      THEN verdict(Contains(code_lower, <<"w", "h", "i", "l", "e", " ">>), "while loop found", "while loop needed")
      ELSE IF Contains(condition_text, <<"f", "u", "n", "c", "t", "i", "o", "n">>)
      THEN verdict(Contains(code_lower, <<"d", "e", "f", " ">>) \/ Contains(code_lower, <<"f", "u", "n", "c", "t", "i", "o", "n">>),
                   "function found", "function needed")
      ELSE IF Contains(condition_text, <<"r", "e", "c", "u", "r", "s", "i", "o", "n">>)
      THEN CheckRaised(condition, "re.error")
      ELSE IF Contains(condition_text, <<"t", "i", "m", "e", " ", "c", "o", "m", "p", "l", "e", "x", "i", "t", "y">>)
      THEN IF Contains(condition_text, <<"o", "(", "n", ")">>)
           THEN verdict(Contains(code_lower, <<"f", "o", "r", " ">>) /\ Contains(code_lower, <<"i", "n", " ">>),
                        "O(n) met", "O(n) needed")
           ELSE IF Contains(condition_text, <<"o", "(", "1", ")">>)
           THEN verdict(~Contains(code_lower, <<"f", "o", "r", " ">>) /\ ~Contains(code_lower, <<"w", "h", "i", "l", "e", " ">>),
                        "O(1) met", "O(1) needed")
           ELSE CheckResult(condition, TRUE, "time complexity not checkable")
      ELSE LET keywords == Split(condition_text)
           IN  verdict(\A k \in DOMAIN keywords : Contains(code_lower, keywords[k]),
                       "condition met", "condition needed")

\* re.match(r'^\[.*\]$', s) for a stripped s
IsArrayText(s) ==
  /\ Len(s) >= 2
  /\ s[1] = "["
  /\ s[Len(s)] = "]"
  /\ \A i \in DOMAIN s : s[i] # "\n"

\* ConditionChecker.check_output_validation_condition
check_output_validation_condition(condition, output, expected) ==
  LET condition_text == ToLower(condition.condition)
      verdict(passed, yes, no) == CheckResult(condition, passed, IF passed THEN yes ELSE no)
  IN  IF Contains(condition_text, <<"e", "x", "a", "c", "t", " ", "m", "a", "t", "c", "h">>)
      THEN verdict(Strip(output) = Strip(expected), "output matches", "output differs")
      ELSE IF Contains(condition_text, <<"c", "o", "n", "t", "a", "i", "n", "s">>)
      THEN verdict(Contains(output, Strip(AfterLast(condition_text, <<"c", "o", "n", "t", "a", "i", "n", "s">>))),
                   "output contains target", "output must contain target")
      ELSE IF Contains(condition_text, <<"f", "o", "r", "m", "a", "t">>)
      THEN IF Contains(condition_text, <<"a", "r", "r", "a", "y">>)
           THEN verdict(IsArrayText(Strip(output)), "output is an array",
                        "output must be an array")
           ELSE IF Contains(condition_text, <<"n", "u", "m", "b", "e", "r">>)
           THEN verdict(IsDigitStr(Strip(output)), "output is a number",
                        "output must be a number")
           ELSE CheckResult(condition, TRUE, "format not checkable")
      ELSE CheckResult(condition, TRUE, "output condition not checkable")

\* ConditionChecker.check_performance_condition: re.search(...).group(1) on
\* a text without a number raises AttributeError
check_performance_condition(condition, execution_time) ==
  LET condition_text == ToLower(condition.condition)
      found == SearchNumber(condition_text)
  IN  IF Contains(condition_text, <<"t", "i", "m", "e", " ", "l", "i", "m", "i", "t">>)
      THEN IF ~found[1] THEN CheckRaised(condition, "AttributeError")
           ELSE CheckResult(condition, execution_time <= found[2],
                            IF execution_time <= found[2]
                            THEN "within the time limit" ELSE "over the time limit")
      ELSE CheckResult(condition, TRUE, "performance condition not checkable")

\* check_all_conditions, the body of its loop
CheckOne(condition, code, output, expected, execution_time) ==
  IF condition.check_type = "code_analysis"
  THEN check_code_analysis_condition(condition, code)
  ELSE IF condition.check_type = "output_validation"
  THEN check_output_validation_condition(condition, output, expected)
  ELSE IF condition.check_type = "performance"
  THEN check_performance_condition(condition, execution_time)
  ELSE CheckResult(condition, TRUE, "condition not checkable")

\* ConditionChecker.check_all_conditions: the list of results, or the
\* exception of the first check that raises
check_all_conditions(conditions, code, output, expected, execution_time) ==
  LET each == [i \in DOMAIN conditions |->
                 CheckOne(conditions[i], code, output, expected, execution_time)]
      raising == {i \in DOMAIN each : each[i].exc # ""}
  IN  IF raising = {} THEN [exc |-> "", results |-> each]
      ELSE [exc |-> each[CHOOSE i \in raising : \A j \in raising : i <= j].exc,
            results |-> <<>>]

\* the check types ProblemConditionCheck accepts
CheckTypes == {"code_analysis", "output_validation", "performance", "gpt_check"}

\* grade_and_save: the ProblemConditionCheck built from one stored condition,
\* a str or a dict; an absent key is the empty sequence (check_type: "")
BuildCheck(c) ==
  [condition |-> c.condition,
   is_required |-> IF c.is_str \/ c.is_required = <<>> THEN TRUE ELSE c.is_required[1],
   check_type |-> IF c.is_str \/ c.check_type = "" THEN "code_analysis" ELSE c.check_type]

\* model_dump of a result
Dump(r) ==
  [condition |-> r.condition, is_required |-> r.is_required,
   check_type |-> r.check_type, passed |-> r.passed, feedback |-> r.feedback]

\* what one GPT reply says of one condition
ReplyPool ==
  { [passed |-> TRUE, feedback |-> "gpt: satisfied"],
    [passed |-> FALSE, feedback |-> "gpt: not satisfied"],
    [passed |-> FALSE, feedback |-> ""] }

\* how one call of _check_single_condition ends
SinglePool ==
  { [kind |-> "ok", passed |-> TRUE, feedback |-> "gpt: satisfied"],
    [kind |-> "ok", passed |-> FALSE, feedback |-> "gpt: not satisfied"],
    [kind |-> "api_error", passed |-> FALSE, feedback |-> ""],
    [kind |-> "bad_json", passed |-> FALSE, feedback |-> ""] }

\* GPTConditionChecker._check_single_condition: never raises
_check_single_condition(text, how) ==
  [condition |-> text, is_required |-> TRUE, check_type |-> "gpt_check",
   passed |-> IF how.kind = "ok" THEN how.passed ELSE FALSE,
   feedback |-> IF how.kind = "ok" THEN how.feedback
                ELSE IF how.kind = "bad_json" THEN "gpt: reply not parseable"
                ELSE "gpt: analysis error"]

\* GPTConditionChecker.check_conditions_with_gpt
check_conditions_with_gpt(raw, hows) ==
  [i \in DOMAIN raw |-> _check_single_condition(raw[i].condition, hows[i])]

\* GPTConditionChecker.check_all_conditions_batch: the results of a parsed
\* reply, or the one-by-one fallback when the call or the parsing raises
check_all_conditions_batch(raw, batch, reply, hows) ==
  IF batch = "ok"
  THEN [i \in DOMAIN reply |->
          [condition |-> IF i <= Len(raw) THEN raw[i].condition ELSE <<>>,
           is_required |-> IF i <= Len(raw) THEN BuildCheck(raw[i]).is_required ELSE TRUE,
           check_type |-> IF i <= Len(raw) THEN "gpt_check" ELSE "code_analysis",
           passed |-> reply[i].passed,
           feedback |-> reply[i].feedback]]
  ELSE check_conditions_with_gpt(raw, hows)

\* mutant of MergeChecks: the OR policy
MergeChecks_Or(rule, gpt, raw) ==
  LET n == IF Len(rule) >= Len(gpt) THEN Len(rule) ELSE Len(gpt)
  IN  [i \in 1..n |->
        LET base == IF i <= Len(rule) THEN rule[i] ELSE gpt[i]
            passed == IF i <= Len(rule) /\ i <= Len(gpt)
                      THEN rule[i].passed \/ gpt[i].passed
                      ELSE base.passed
            feedback == IF i <= Len(rule) /\ i <= Len(gpt)
                        THEN IF passed THEN rule[i].feedback
                             ELSE IF gpt[i].feedback # "" THEN gpt[i].feedback
                             ELSE rule[i].feedback
                        ELSE base.feedback
        IN  [condition |-> base.condition, is_required |-> base.is_required,
             check_type |-> base.check_type, passed |-> passed,
             feedback |-> feedback,
             weight |-> IF i <= Len(raw) /\ ~raw[i].is_str /\ raw[i].weight # <<>>
                        THEN raw[i].weight[1] ELSE 1]]

\* grade_and_save: the merge of the two result lists, index by index
MergeChecks(rule, gpt, raw) ==
  LET n == IF Len(rule) >= Len(gpt) THEN Len(rule) ELSE Len(gpt)
  IN  [i \in 1..n |->
        LET base == IF i <= Len(rule) THEN rule[i] ELSE gpt[i]
            passed == IF i <= Len(rule) /\ i <= Len(gpt)
                      THEN rule[i].passed /\ gpt[i].passed
                      ELSE base.passed
            feedback == IF i <= Len(rule) /\ i <= Len(gpt)
                        THEN IF passed THEN rule[i].feedback
                             ELSE IF gpt[i].feedback # "" THEN gpt[i].feedback
                             ELSE rule[i].feedback
                        ELSE base.feedback
        IN  [condition |-> base.condition, is_required |-> base.is_required,
             check_type |-> base.check_type, passed |-> passed,
             feedback |-> feedback,
             weight |-> IF i <= Len(raw) /\ ~raw[i].is_str /\ raw[i].weight # <<>>
                        THEN raw[i].weight[1] ELSE 1]]

\* the stored conditions of a problem
ConditionPool ==
  { [is_str |-> TRUE, condition |-> <<"f", "o", "r", " ", "l", "o", "o", "p">>,
     is_required |-> <<>>, check_type |-> "", weight |-> <<>>],
    [is_str |-> FALSE, condition |-> <<"u", "s", "e", " ", "r", "e", "c", "u", "r", "s", "i", "o", "n">>,
     is_required |-> <<FALSE>>, check_type |-> "code_analysis", weight |-> <<>>],
    [is_str |-> FALSE, condition |-> <<"t", "i", "m", "e", " ", "l", "i", "m", "i", "t">>,
     is_required |-> <<>>, check_type |-> "performance", weight |-> <<>>],
    [is_str |-> FALSE, condition |-> <<"t", "i", "m", "e", " ", "l", "i", "m", "i", "t", " ", "9">>,
     is_required |-> <<FALSE>>, check_type |-> "performance", weight |-> <<2>>],
    [is_str |-> FALSE, condition |-> <<"e", "x", "a", "c", "t", " ", "m", "a", "t", "c", "h">>,
     is_required |-> <<>>, check_type |-> "output_validation", weight |-> <<>>],
    [is_str |-> FALSE, condition |-> <<"r", "e", "a", "d", "a", "b", "l", "e", " ", "n", "a", "m", "e", "s">>,
     is_required |-> <<FALSE>>, check_type |-> "gpt_check", weight |-> <<>>],
    [is_str |-> FALSE, condition |-> <<"p", "r", "i", "n", "t">>,
     is_required |-> <<TRUE>>, check_type |-> "", weight |-> <<>>],
    [is_str |-> FALSE, condition |-> <<"p", "r", "i", "n", "t">>,
     is_required |-> <<>>, check_type |-> "style", weight |-> <<>>] }

ConditionLists ==
  UNION {[1..n -> ConditionPool] : n \in 0..MaxConds}

\* the submitted codes
CodePool == { <<"f", "o", "r", " ", "i", " ", "i", "n", " ", "x", ":", " ", "p", "r", "i", "n", "t", "(", "i", ")">>, <<"x", "=", "1">> }

\* the first test result and the summed execution time
RunPool ==
  { [output |-> <<"h", "i">>, expected_output |-> <<"h", "i">>, execution_time |-> 5],
    [output |-> <<"n", "o">>, expected_output |-> <<"h", "i">>, execution_time |-> 20] }

ReplyLists ==
  UNION {[1..n -> ReplyPool] : n \in 0..MaxConds}

InitCond ==
  /\ RunnerIdle
  /\ SideIdle
  /\ JudgeIdle
  /\ ModeIdle
  /\ ScoreIdle
  /\ cpc = "rule"
  /\ codes \in CodePool
  /\ conds \in ConditionLists
  /\ run0 \in RunPool
  /\ rule_checks = <<>>
  /\ gpt_log = [construct |-> "none", batch |-> "none", single |-> <<>>]
  /\ gpt_checks = <<>>
  /\ merged = <<>>
  /\ cexc = ""

\* grade_and_save, the rule-based block: a check type outside CheckTypes
\* fails the construction of ProblemConditionCheck, a raising check fails
\* check_all_conditions; neither is caught
RuleCheck ==
  /\ cpc = "rule"
  /\ LET built == [i \in DOMAIN conds |-> BuildCheck(conds[i])]
         res == check_all_conditions(built, codes, run0.output,
                                     run0.expected_output, run0.execution_time)
     IN  IF conds = <<>>
         THEN /\ cpc' = "merge"
              /\ UNCHANGED <<rule_checks, cexc>>
         ELSE IF \E i \in DOMAIN built : built[i].check_type \notin CheckTypes
         THEN /\ cpc' = "aborted"
              /\ cexc' = "ValidationError"
              /\ UNCHANGED rule_checks
         ELSE IF res.exc # ""
         THEN /\ cpc' = "aborted"
              /\ cexc' = res.exc
              /\ UNCHANGED rule_checks
         ELSE /\ cpc' = "gpt"
              /\ rule_checks' = [i \in DOMAIN res.results |-> Dump(res.results[i])]
              /\ UNCHANGED cexc
  /\ UNCHANGED <<codes, conds, run0, gpt_log, gpt_checks, merged>>
  /\ UNCHANGED <<runnerVars, judgeVars, modeVars, scoreVars, sideVars>>

\* grade_and_save, the GPT block: without an API key the constructor raises
\* and the list stays empty
GptCheck ==
  /\ cpc = "gpt"
  /\ \/ /\ gpt_log' = [construct |-> "no_key", batch |-> "none", single |-> <<>>]
        /\ gpt_checks' = <<>>
     \/ \E reply \in ReplyLists :
          /\ gpt_log' = [construct |-> "ok", batch |-> "ok", single |-> <<>>]
          /\ gpt_checks' = check_all_conditions_batch(conds, "ok", reply, <<>>)
     \/ \E batch \in {"api_error", "bad_json"} :
        \E hows \in [DOMAIN conds -> SinglePool] :
          /\ gpt_log' = [construct |-> "ok", batch |-> batch,
                         single |-> [i \in DOMAIN hows |-> hows[i].kind]]
          /\ gpt_checks' = check_all_conditions_batch(conds, batch, <<>>, hows)
  /\ cpc' = "merge"
  /\ UNCHANGED <<codes, conds, run0, rule_checks, merged, cexc>>
  /\ UNCHANGED <<runnerVars, judgeVars, modeVars, scoreVars, sideVars>>

\* grade_and_save, the merge loop
Merge ==
  /\ cpc = "merge"
  /\ merged' = MergeChecks(rule_checks, gpt_checks, conds)
  /\ cpc' = "merged"
  /\ UNCHANGED <<codes, conds, run0, rule_checks, gpt_log, gpt_checks, cexc>>
  /\ UNCHANGED <<runnerVars, judgeVars, modeVars, scoreVars, sideVars>>

NextCond == RuleCheck \/ GptCheck \/ Merge

SpecCond == InitCond /\ [][NextCond]_vars

\* ----------------------------------------------------------------- presence
\* add_presence: the user's other sessions leave the set and lose their
\* hash; the session enters the set with active "True"
add_presence(set, data, key) ==
  LET stale == {raw \in set : raw[1] = key[1] /\ raw[2] # key[2]}
  IN  [set |-> (set \ stale) \cup {key},
       data |-> [k \in SessionKeys |->
                   IF k = key THEN "True"
                   ELSE IF k \in stale THEN "absent"
                   ELSE data[k]]]

\* remove_presence: a hash that exists gets active "False"; key may be one
\* that names no session (NoSession)
remove_presence(data, key) ==
  [k \in SessionKeys |-> IF k = key /\ data[k] # "absent" THEN "False" ELSE data[k]]

\* get_presence: sessions without a hash leave the set; the ids are the
\* users with a session whose active is "True"
get_presence(set, data) ==
  [set |-> {raw \in set : data[raw] # "absent"},
   ids |-> {raw[1] : raw \in {x \in set : data[x] = "True"}}]

InitPresence ==
  /\ ws_conn = [w \in Conns |-> [st |-> "new", in_room |-> FALSE,
                                  session |-> NoSession, joined_as |-> NoSession]]
  /\ redis_set = {}
  /\ redis_data = [k \in SessionKeys |-> "absent"]
  /\ last_update = {}
  /\ TextIdle
  /\ GroupIdle
  /\ RunnerIdle
  /\ JudgeIdle
  /\ ModeIdle
  /\ CondIdle
  /\ ScoreIdle

\* the frame of every presence action
PresenceFrame ==
  UNCHANGED <<runnerVars, judgeVars, modeVars, condVars, scoreVars, textVars, groupVars>>

\* ws_presence: accept() and room_connections[roomId].add(websocket)
Accept(w) ==
  /\ ws_conn[w].st = "new"
  /\ ws_conn' = [ws_conn EXCEPT ![w].st = "open", ![w].in_room = TRUE]
  /\ UNCHANGED <<redis_set, redis_data, last_update>>
  /\ PresenceFrame

\* the end of one pass of the loop: get_presence and the broadcast
Broadcast(set, data) ==
  /\ redis_set' = get_presence(set, data).set
  /\ redis_data' = data
  /\ last_update' = IF \E x \in Conns : ws_conn'[x].in_room
                    THEN get_presence(set, data).ids ELSE last_update

\* ws_presence, a 'join' message of user u
Join(w, u) ==
  /\ ws_conn[w].st = "open"
  /\ LET key == <<u, w>>
         r == add_presence(redis_set, redis_data, key)
     IN  /\ ws_conn' = [ws_conn EXCEPT ![w].session = key, ![w].joined_as = key]
         /\ Broadcast(r.set, r.data)
  /\ PresenceFrame

\* ws_presence, a 'leave' message; without an entry in connection_session
\* the ids come from the message (named: any session, or none)
Leave(w) ==
  /\ ws_conn[w].st = "open"
  /\ \E named \in SessionKeys \cup {NoSession} :
       LET key == IF ws_conn[w].session # NoSession THEN ws_conn[w].session ELSE named
       IN  /\ ws_conn[w].session # NoSession => named = NoSession
           /\ ws_conn' = [ws_conn EXCEPT ![w].session = NoSession, ![w].in_room = FALSE]
           /\ Broadcast(redis_set, remove_presence(redis_data, key))
  /\ PresenceFrame

\* ws_presence, a message of another type: the broadcast alone
OtherMessage(w) ==
  /\ ws_conn[w].st = "open"
  /\ UNCHANGED ws_conn
  /\ Broadcast(redis_set, redis_data)
  /\ PresenceFrame

\* ws_presence, except WebSocketDisconnect
Disconnect(w) ==
  /\ ws_conn[w].st = "open"
  /\ ws_conn' = [ws_conn EXCEPT ![w].st = "closed", ![w].session = NoSession,
                                ![w].in_room = FALSE]
  /\ Broadcast(redis_set,
               IF ws_conn[w].session # NoSession
               THEN remove_presence(redis_data, ws_conn[w].session)
               ELSE redis_data)
  /\ PresenceFrame

\* ws_presence, except Exception: a message that is no JSON, or has no
\* 'type', ends the handler
MessageError(w) ==
  /\ ws_conn[w].st = "open"
  /\ ws_conn' = [ws_conn EXCEPT ![w].st = "closed", ![w].session = NoSession,
                                ![w].in_room = FALSE]
  /\ UNCHANGED <<redis_set, redis_data, last_update>>
  /\ PresenceFrame

NextPresence ==
  \E w \in Conns :
    \/ Accept(w)
    \/ \E u \in Users : Join(w, u)
    \/ Leave(w)
    \/ OtherMessage(w)
    \/ Disconnect(w)
    \/ MessageError(w)

SpecPresence == InitPresence /\ [][NextPresence]_vars

\* ------------------------------------------------------------ join requests
\* is_member_of_group: a group_user row with deleted_at NULL
is_member_of_group(member, u) == member[u] = "active"

\* the rows of u in one of the states
RowsIn(requests, u, states) ==
  {i \in DOMAIN requests[u] : requests[u][i] \in states}

\* has_active_request: scalar_one_or_none() over the rows that are PENDING
\* or ACCEPTED
has_active_request(requests, u) ==
  RowsIn(requests, u, {"PENDING", "ACCEPTED"}) # {}

InitGroup ==
  /\ grp_exists \in BOOLEAN
  /\ grp_member \in [Users -> {"none", "active", "deleted"}]
  /\ grp_requests = [u \in Users |-> <<>>]
  /\ grp_last = NoCall
  /\ TextIdle
  /\ PresenceIdle
  /\ RunnerIdle
  /\ JudgeIdle
  /\ ModeIdle
  /\ CondIdle
  /\ ScoreIdle

GroupFrame ==
  UNCHANGED <<runnerVars, judgeVars, modeVars, condVars, scoreVars, textVars, presVars>>

\* what a call found before it acted
Called(op, u, status) ==
  [op |-> op, user |-> u, status |-> status,
   was_member |-> is_member_of_group(grp_member, u),
   had_pending |-> RowsIn(grp_requests, u, {"PENDING"}) # {}]

\* create_member_request(db, group_id, user_id)
CreateMemberRequest(u) ==
  /\ Len(grp_requests[u]) < MaxRequests
  /\ IF ~grp_exists
     THEN /\ grp_last' = Called("create", u, "404 group not found")
          /\ UNCHANGED grp_requests
     ELSE IF is_member_of_group(grp_member, u)
     THEN /\ grp_last' = Called("create", u, "400 already a member")
          /\ UNCHANGED grp_requests
     ELSE IF has_active_request(grp_requests, u)
     THEN /\ grp_last' = Called("create", u, "400 already requested")
          /\ UNCHANGED grp_requests
     ELSE /\ grp_last' = Called("create", u, "created")
          /\ grp_requests' = [grp_requests EXCEPT ![u] = Append(@, "PENDING")]
  /\ UNCHANGED <<grp_exists, grp_member>>
  /\ GroupFrame

\* process_member_request(db, group_id, requesting_user_id, request_state,
\* owner_user_id); a second group_user row of the same user and group
\* breaks the primary key and fails the commit
ProcessMemberRequest(u, request_state, is_owner) ==
  LET pending == RowsIn(grp_requests, u, {"PENDING"})
      row == CHOOSE i \in pending : TRUE
  IN
  /\ IF ~(grp_exists /\ is_owner)
     THEN /\ grp_last' = Called("process", u, "403 not the owner")
          /\ UNCHANGED <<grp_requests, grp_member>>
     ELSE IF pending = {}
     THEN /\ grp_last' = Called("process", u, "404 no request")
          /\ UNCHANGED <<grp_requests, grp_member>>
     ELSE IF request_state /\ grp_member[u] # "none"
     THEN /\ grp_last' = Called("process", u, "IntegrityError")
          /\ UNCHANGED <<grp_requests, grp_member>>
     ELSE /\ grp_last' = Called("process", u, IF request_state THEN "accepted" ELSE "rejected")
          /\ grp_requests' = [grp_requests EXCEPT
                                ![u][row] = IF request_state THEN "ACCEPTED" ELSE "REJECTED"]
          /\ grp_member' = [grp_member EXCEPT ![u] = IF request_state THEN "active" ELSE @]
  /\ UNCHANGED grp_exists
  /\ GroupFrame

\* delete_group_member(db, group_id, user_id): a soft delete
DeleteGroupMember(u) ==
  /\ IF grp_member[u] = "active"
     THEN /\ grp_member' = [grp_member EXCEPT ![u] = "deleted"]
          /\ grp_last' = Called("delete", u, "True")
     ELSE /\ grp_last' = Called("delete", u, "False")
          /\ UNCHANGED grp_member
  /\ UNCHANGED <<grp_exists, grp_requests>>
  /\ GroupFrame

NextGroup ==
  \E u \in Users :
    \/ CreateMemberRequest(u)
    \/ \E request_state \in BOOLEAN : \E is_owner \in BOOLEAN :
         ProcessMemberRequest(u, request_state, is_owner)
    \/ DeleteGroupMember(u)

SpecGroup == InitGroup /\ [][NextGroup]_vars

\* ------------------------------------------------------------------ scoring
\* Points are counted in hundredths of a point, so round(x, 2) is rounding
\* to a whole number of hundredths.
RECURSIVE SumSeq(_)
SumSeq(q) == IF q = <<>> THEN 0 ELSE Head(q) + SumSeq(Tail(q))

\* round(num / den, 2) in hundredths, den > 0: the nearest whole number, an
\* exact tie going to the even one
RoundDiv(num, den) ==
  LET q == num \div den
      r == num % den
  IN  IF 2 * r < den THEN q
      ELSE IF 2 * r > den THEN q + 1
      ELSE IF q % 2 = 0 THEN q ELSE q + 1

Abs(x) == IF x < 0 THEN 0 - x ELSE x

\* float(max(0.0, it.get("weight", 1.0)))
ClampedWeight(it) == IF it.weight > 0 THEN it.weight ELSE 0

\* the first loop of distribute_condition_scores: got of every item
GotScores(items, total) ==
  LET s0 == SumSeq([i \in DOMAIN items |-> ClampedWeight(items[i])])
      weights_sum == IF s0 = 0 THEN 1 ELSE s0
  IN  [i \in DOMAIN items |->
         IF items[i].passed
         THEN RoundDiv(total * ClampedWeight(items[i]), weights_sum)
         ELSE 0]

\* mutant of distribute_condition_scores: the gap is never added
distribute_condition_scores_NoGap(items, total) ==
  [items |-> [i \in DOMAIN items |->
                [passed |-> items[i].passed, weight |-> items[i].weight,
                 is_required |-> items[i].is_required,
                 score |-> GotScores(items, total)[i]]],
   earned_sum |-> SumSeq(GotScores(items, total))]

\* distribute_condition_scores(items, total_points): (out, earned_sum)
distribute_condition_scores(items, total) ==
  IF items = <<>> THEN [items |-> <<>>, earned_sum |-> 0]
  ELSE
    LET got == GotScores(items, total)
        gap == total - SumSeq(got)
        passing == {i \in DOMAIN items : items[i].passed}
        fix == Abs(gap) >= 1 /\ passing # {}
        first == CHOOSE i \in passing : \A j \in passing : i <= j
    IN  [items |-> [i \in DOMAIN items |->
                      [passed |-> items[i].passed, weight |-> items[i].weight,
                       is_required |-> items[i].is_required,
                       score |-> IF fix /\ i = first THEN got[i] + gap ELSE got[i]]],
         earned_sum |-> IF fix THEN SumSeq(got) + gap ELSE SumSeq(got)]

\* a percentage as the quotient num / den the float stands for
Percent(num, den) == [num |-> num, den |-> den]

\* mutant of _success_rate: no test result counts as every test passed
_success_rate_EmptyIsFull(rs) ==
  IF rs = <<>> THEN Percent(100, 1)
  ELSE Percent(Cardinality({i \in DOMAIN rs : rs[i].passed}) * 100, Len(rs))

\* AIFeedbackService._success_rate(test_results)
_success_rate(rs) ==
  IF rs = <<>> THEN Percent(0, 1)
  ELSE Percent(Cardinality({i \in DOMAIN rs : rs[i].passed}) * 100, Len(rs))

\* mutant of AllStatusOf: any failed condition fails the whole
AllStatusOf_AnyFailed(cond_results) ==
  IF \A i \in DOMAIN cond_results : cond_results[i].passed THEN "success" ELSE "fail"

\* generate_for_problem_type: all_required_ok and all_status
AllStatusOf(cond_results) ==
  LET all_required_ok ==
        \A i \in DOMAIN cond_results :
          (~cond_results[i].is_required) \/ cond_results[i].passed
  IN  IF all_required_ok THEN "success" ELSE "fail"

\* generate_for_problem_type for "coding" and "debugging": the dict returned
generate_for_problem_type(maxp, rs, cond_results) ==
  LET percent == _success_rate(rs)
  IN  [kind |-> "return",
       percent |-> percent,
       score |-> RoundDiv(percent.num * maxp, percent.den * 100),
       graded_by |-> "auto:testcase",
       condition_points_earned |->
         SumSeq([i \in DOMAIN cond_results |-> cond_results[i].score]),
       all_status |-> AllStatusOf(cond_results)]

ItemPool == [passed : BOOLEAN, weight : {-1, 1, 2}, is_required : BOOLEAN]
ItemLists(n) == UNION {[1..k -> ItemPool] : k \in 0..n}
\* condition_points of a problem: 0, 10 and 40 points
PointPool == {0, 1000, 4000}
ResultLists == UNION {[1..k -> [passed : BOOLEAN]] : k \in 0..MaxResults}
\* score of a problem reference: 10 and 100 points
MaxPointPool == {1000, 10000}

\* the scoring block of grade_and_save, entered with any condition items and
\* one passed test, or with any test results and at most one condition
InitScore ==
  /\ spc = "distribute"
  /\ \/ /\ cond_items \in ItemLists(MaxItems)
        /\ total_points \in PointPool
        /\ test_results = << [passed |-> TRUE] >>
        /\ max_points = 10000
     \/ /\ cond_items \in ItemLists(1)
        /\ total_points = 1000
        /\ test_results \in ResultLists
        /\ max_points \in MaxPointPool
  /\ cond_earned = 0
  /\ ai_res = [kind |-> "none"]
  /\ RunnerIdle
  /\ SideIdle
  /\ JudgeIdle
  /\ ModeIdle
  /\ CondIdle

\* grade_and_save: cond_items, cond_earned = distribute_condition_scores(...)
Distribute ==
  /\ spc = "distribute"
  /\ cond_items' = distribute_condition_scores(cond_items, total_points).items
  /\ cond_earned' = distribute_condition_scores(cond_items, total_points).earned_sum
  /\ spc' = "generate"
  /\ UNCHANGED <<total_points, test_results, max_points, ai_res,
                 runnerVars, judgeVars, modeVars, condVars, sideVars>>

\* grade_and_save: ai_res = await self.ai.generate_for_problem_type(...)
GenerateFeedback ==
  /\ spc = "generate"
  /\ ai_res' = generate_for_problem_type(max_points, test_results, cond_items)
  /\ spc' = "graded"
  /\ UNCHANGED <<cond_items, total_points, cond_earned, test_results, max_points,
                 runnerVars, judgeVars, modeVars, condVars, sideVars>>

NextScore == Distribute \/ GenerateFeedback

SpecScore == InitScore /\ [][NextScore]_vars

\* ------------------------------------------------------------------ claims
Done(c) == pc[c] \in {"done", "normalized"}
Returned(c) == Done(c) /\ out[c].kind = "return"
\* the binaries a language's run and compile commands start with
RequiredBinaries(l) ==
  { b \in {language_configs[l].run_cmd[1]} \cup
          (IF language_configs[l].compile_cmd # NoCmd
           THEN {language_configs[l].compile_cmd[1]} ELSE {}) : ~IsTemplate(b) }
RuntimeInstalled(c) ==
  language[c] \in Registered /\ RequiredBinaries(language[c]) \subseteq installed
StatusWord(r) == IF r.status.kind = "enum" THEN r.status.name ELSE r.status.value
ProcsOf(c) == {pid \in DOMAIN procs : procs[pid].call = c}
RunProcsOf(c) == {pid \in ProcsOf(c) : procs[pid].kind = "run"}

C2_FailedStatusNeverPassed ==
  \A c \in Calls :
    /\ \A i \in DOMAIN results[c] :
         StatusWord(results[c][i]) \in {"TIMEOUT", "ERROR"} => ~results[c][i].passed
    /\ \A i \in DOMAIN norm[c] :
         norm[c][i].status \in {"TIMEOUT", "ERROR"} => ~norm[c][i].passed

\* C2 witness: a normalised list holding a TIMEOUT and an ERROR result
C2_Witness ==
  /\ pc[1] = "normalized"
  /\ \E i, j \in DOMAIN norm[1] :
       /\ norm[1][i].status = "TIMEOUT"
       /\ norm[1][i].expected_output = <<>>
       /\ norm[1][j].status = "ERROR"

\* C3: once a step whose process exceeded its timeout has produced its
\* result, that process is no longer alive.
C3_TimedOutProcessKilled ==
  \A pid \in DOMAIN procs :
    (procs[pid].timed_out /\ procs[pid].emitted) => ~procs[pid].running

\* C4: within one run_code call at most one spawned process is alive.
C4_OneProcessAtATime ==
  \A c \in Calls : Cardinality({pid \in ProcsOf(c) : procs[pid].running}) <= 1

\* C5: when run_code has returned or raised, no file created by it or by
\* its compiler exists.
C5_NoFileLeft ==
  \A c \in Calls : Done(c) => made[c] \cap fs = {}

\* C6: run_code raises for none of the expected failure modes: an exception
\* that leaves it is the registry's KeyError or the failed write of the
\* source file.
C6_ExpectedFailuresAreResults ==
  \A c \in Calls : out[c].kind = "raise" => out[c].exc \in {"KeyError", "ENOSPC"}

\* C6 witness: a returned call that met a process that could not be spawned
\* and a timeout
C6_Witness ==
  /\ Returned(1)
  /\ \E i, j \in DOMAIN results[1] :
       /\ results[1][i].error = Err("exception", "OSError")
       /\ StatusWord(results[1][j]) = "TIMEOUT"

\* C7: with a binary of the language's run or compile command missing,
\* run_code creates no file and spawns no process, and returns
\* success = false with one ERROR result per test case, all with the same
\* message and passed = false.
C7_MissingRuntime ==
  \A c \in Calls :
    (language[c] \in Registered /\ ~RuntimeInstalled(c)) =>
      /\ made[c] = {}
      /\ ProcsOf(c) = {}
      /\ pc[c] \in {"off", "start", "cleanup", "done", "normalized"}
      /\ pc[c] \in {"cleanup", "done", "normalized"} =>
           /\ out[c].kind = "return"
           /\ ~out[c].success
           /\ Len(results[c]) = Len(test_cases[c])
           /\ \A i \in DOMAIN results[c] :
                /\ StatusWord(results[c][i]) = "ERROR"
                /\ ~results[c][i].passed
                /\ results[c][i].test_case_index = i - 1
                /\ results[c][i].error = results[c][1].error
                /\ results[c][i].error.kind = "missing_runtime"

\* C7 witness: a C++ call with g++ missing has returned for two test cases
C7_Witness ==
  /\ Done(1)
  /\ language[1] = "cpp"
  /\ "g++" \notin installed
  /\ Len(test_cases[1]) = 2

\* C8: for every spawned process, once its step's result is produced the
\* sampler thread has been signalled to stop and joined.
C8_SamplerJoinedBeforeResult ==
  \A pid \in DOMAIN procs :
    procs[pid].emitted => (procs[pid].stop_set /\ procs[pid].joined)

\* the paths a call in progress writes, reads or unlinks: its source file
\* and the clean-up's targets
PathsOf(c) ==
  IF pc[c] \in {"off", "start", "done", "normalized"} THEN {}
  ELSE (({file_path[c]} \cup CleanupTargets(c)) \ {NoPath, ClassFileOf(NoPath)})

\* C9: two run_code calls running at once never use the same file path.
C9_NoSharedPath ==
  \A c, d \in Calls : c # d => PathsOf(c) \cap PathsOf(d) = {}

\* C10: every compile and test-case process has the address-space limit
\* applied before it runs.
C10_AddressSpaceLimited ==
  \A pid \in DOMAIN procs : <<"RLIMIT_AS", MEMORY_LIMIT>> \in procs[pid].limits

\* C11: under the runner's HARD mode, a test case whose process ended within
\* the timeout and whose trimmed stdout equals the trimmed expected output
\* has a SUCCESS result with passed = true.
C11_HardMatchPasses ==
  \A c \in Calls : \A i \in DOMAIN results[c] :
    ( /\ rating_mode[c] = RunnerRatingMode.HARD
      /\ StatusWord(results[c][i]) = "SUCCESS"
      /\ results[c][i].output = Strip(results[c][i].expected_output) )
    => results[c][i].passed

\* a NONE member of either RatingMode enum
IsNoneMode(m) == m \in {RatingMode.NONE, RunnerRatingMode.NONE}

\* C20: compare(output, expected, NONE) returns true for all output and
\* expected strings, in both trees.
C20_NoneAlwaysTrue ==
  (judge_out.done /\ IsNoneMode(judge_in.rating_mode)) => judge_out.value

\* C19: when the problem has test cases and every one of them has an empty
\* expected_output, the rating mode handed to the runner is NONE whatever
\* was requested, for coding submissions, debugging submissions and the
\* run_code endpoint.
C19_AllEmptyForcesNone ==
  ( /\ handed # "unset"
    /\ pb_expected # <<>>
    /\ \A i \in DOMAIN pb_expected : pb_expected[i] = <<>> )
    => handed = RunnerRatingMode.NONE

\* what distribute_condition_scores and generate_for_problem_type were given
ScoresOf(items) == [i \in DOMAIN items |-> items[i].score]
Distributed == spc \in {"generate", "graded"}
SomePassed(items) == \E i \in DOMAIN items : items[i].passed

WeightOf(it) == IF it.weight > 0 THEN it.weight ELSE 0
WeightSum(items) == SumSeq([i \in DOMAIN items |-> WeightOf(items[i])])
PassedWeightSum(items) ==
  SumSeq([i \in DOMAIN items |-> IF items[i].passed THEN WeightOf(items[i]) ELSE 0])

\* C13: for items of positive weight, every item's score is its allocation
\* total_points * weight / sum of weights when it passed and 0 when it did
\* not, and the earned total is the sum of the passed items' allocations
\* (each within the rounding to hundredths, one hundredth per item).
C13_ScoreIsAllocation ==
  (Distributed /\ cond_items # <<>>
     /\ \A i \in DOMAIN cond_items : cond_items[i].weight > 0) =>
    LET W == WeightSum(cond_items)
        tol == W * Len(cond_items)
    IN  /\ \A i \in DOMAIN cond_items :
             IF cond_items[i].passed
             THEN Abs(cond_items[i].score * W
                        - total_points * WeightOf(cond_items[i])) <= tol
             ELSE cond_items[i].score = 0
        /\ Abs(cond_earned * W - total_points * PassedWeightSum(cond_items)) <= tol

\* C14: all_status is "fail" exactly when a condition result with
\* is_required = true has passed = false, and "success" otherwise, whatever
\* the test results and the score are.
C14_AllStatus ==
  spc = "graded" =>
    /\ ai_res.all_status \in {"success", "fail"}
    /\ ai_res.all_status = "fail" <=>
         \E i \in DOMAIN cond_items :
           cond_items[i].is_required /\ ~cond_items[i].passed

\* C14 witness: every test passed and the full score, a required condition
\* failed next to a passed one
C14_Witness ==
  /\ spc = "graded"
  /\ test_results # <<>>
  /\ \A i \in DOMAIN test_results : test_results[i].passed
  /\ ai_res.score = max_points
  /\ \E i, j \in DOMAIN cond_items :
       /\ cond_items[i].is_required /\ ~cond_items[i].passed
       /\ cond_items[j].passed
  /\ ai_res.all_status = "fail"

CoveredByBoth ==
  {i \in DOMAIN rule_checks : i <= Len(gpt_checks)}

\* C16: at every index covered by both the rule-based and the semantic
\* list, the merged passed is rule passed AND semantic passed, and the
\* merged feedback is the rule-based one when merged passed is true,
\* otherwise the semantic one, or the rule-based one if the semantic
\* feedback is empty.
C16_MergeIsAnd ==
  cpc = "merged" =>
    \A i \in CoveredByBoth :
      /\ merged[i].passed = (rule_checks[i].passed /\ gpt_checks[i].passed)
      /\ merged[i].feedback =
           IF merged[i].passed THEN rule_checks[i].feedback
           ELSE IF gpt_checks[i].feedback # "" THEN gpt_checks[i].feedback
           ELSE rule_checks[i].feedback

\* a condition passed by the rules and failed by GPT without a message:
\* merged as failed, with the rule-based feedback
C16_Witness ==
  /\ cpc = "merged"
  /\ \E i \in CoveredByBoth :
       /\ rule_checks[i].passed
       /\ ~gpt_checks[i].passed
       /\ gpt_checks[i].feedback = ""
       /\ ~merged[i].passed
       /\ merged[i].feedback = rule_checks[i].feedback

\* the semantic evaluator failed: no API key to construct it with, or the
\* batch call and every one-by-one call raised or got an unparseable reply
GptFailed ==
  \/ gpt_log.construct = "no_key"
  \/ /\ gpt_log.batch \in {"api_error", "bad_json"}
     /\ \A i \in DOMAIN gpt_log.single : gpt_log.single[i] \in {"api_error", "bad_json"}

\* C17: when the semantic evaluator fails, every condition's merged passed
\* and feedback are those of the rule-based evaluator alone, no condition
\* is dropped, and grading does not abort.
C17_GptFailureFallsBackToRules ==
  (cpc = "merged" /\ conds # <<>> /\ GptFailed) =>
    /\ cexc = ""
    /\ Len(merged) = Len(rule_checks)
    /\ \A i \in DOMAIN merged :
         /\ merged[i].passed = rule_checks[i].passed
         /\ merged[i].feedback = rule_checks[i].feedback

\* C18: check_all_conditions returns one result per condition, in order;
\* a condition of no mechanical check type is passed, present, and carries
\* its is_required flag (true when unspecified).
C18_OneResultPerCondition ==
  (cpc # "rule" /\ conds # <<>> /\ cexc # "ValidationError") =>
    /\ cexc = ""
    /\ Len(rule_checks) = Len(conds)
    /\ \A i \in DOMAIN rule_checks :
         /\ rule_checks[i].condition = conds[i].condition
         /\ rule_checks[i].is_required =
              (conds[i].is_str \/ conds[i].is_required # <<FALSE>>)
         /\ conds[i].check_type = "gpt_check" => rule_checks[i].passed


\* t is s without its leading and trailing whitespace
IsTrimOf(t, s) ==
  \E a \in 1..(Len(s) + 1) : \E b \in 0..Len(s) :
    /\ t = SubSeq(s, a, b)
    /\ \A i \in DOMAIN s : (i < a \/ i > b) => s[i] \in WS
    /\ t # <<>> => (t[1] \notin WS /\ t[Len(t)] \notin WS)

\* C21: compare(s, s, HARD) is true, and compare(output, expected, HARD) is
\* true exactly when the two texts are equal once leading and trailing
\* whitespace is trimmed; a difference in interior whitespace makes it false.
C21_HardIsTrimmedEquality ==
  txt_out.kind = "hard" =>
    /\ txt_in.output = txt_in.expected => txt_out.value
    /\ txt_out.value =
         (\E t \in PairTexts : IsTrimOf(t, txt_in.output) /\ IsTrimOf(t, txt_in.expected))

\* texts that differ but are equal after trimming, judged equal
C21_Witness ==
  /\ txt_out.kind = "hard"
  /\ txt_in.output # txt_in.expected
  /\ txt_in.output # <<>>
  /\ Len(txt_in.expected) > Len(txt_in.output)
  /\ txt_in.output[1] \notin WS
  /\ txt_out.value

\* C22: normalize_space(normalize_space(s)) = normalize_space(s) for every
\* text over whitespace, newlines, commas, brackets and ordinary characters.
C22_NormalizeIdempotent ==
  txt_out.kind = "space" => txt_out.twice = txt_out.once

\* a text the normalisation changes, in whitespace next to a comma or a bracket
C22_Witness ==
  /\ txt_out.kind = "space"
  /\ txt_out.once # txt_in.output
  /\ txt_out.once # <<>>
  /\ \E i \in 1..(Len(txt_in.output) - 1) :
       /\ txt_in.output[i] \in {",", "(", "]"}
       /\ txt_in.output[i + 1] \in WS
  /\ Len(txt_out.once) >= 3


\* C23: for every output and every expected text that is no valid regular
\* expression, compare(output, expected, REGEX), and the runner's _judge
\* built on it, returns false and raises nothing.
C23_InvalidRegexIsFalse ==
  ( /\ judge_out.done
    /\ judge_in.copy = "app"
    /\ judge_in.rating_mode \in {RatingMode.REGEX, RunnerRatingMode.REGEX}
    /\ ~RegexValid(Strip(judge_in.expected)) )
  => ~judge_out.value

\* an unterminated group as the pattern, and the very same text as output
C23_Witness ==
  /\ judge_out.done
  /\ judge_in.copy = "app"
  /\ judge_in.rating_mode = RatingMode.REGEX
  /\ judge_in.expected = <<"(", "a">>
  /\ judge_in.output = judge_in.expected
  /\ ~judge_out.value


\* the rounded allocation of item i: round(total_points * weight / sum of weights, 2)
AllocationOf(items, i) ==
  RoundDiv(total_points * WeightOf(items[i]),
           IF WeightSum(items) = 0 THEN 1 ELSE WeightSum(items))

\* the first item in list order that passed (0: none passed)
FirstPassed(items) ==
  IF SomePassed(items)
  THEN CHOOSE i \in DOMAIN items :
         items[i].passed /\ \A j \in 1..(i - 1) : ~items[j].passed
  ELSE 0

\* C24: the rounding residual goes to exactly one item, the first item in
\* list order that passed: it ends within the rounding drift (a hundredth
\* per item) of its own allocation; every other item keeps its own rounded
\* allocation if it passed and 0 if it failed (items of positive weight).
C24_ResidualToFirstPassed ==
  (Distributed /\ \A k \in DOMAIN cond_items : cond_items[k].weight > 0) =>
    \A i \in DOMAIN cond_items :
      IF i = FirstPassed(cond_items)
      THEN Abs(cond_items[i].score - AllocationOf(cond_items, i)) <= Len(cond_items)
      ELSE cond_items[i].score =
             IF cond_items[i].passed THEN AllocationOf(cond_items, i) ELSE 0


\* the compiler of call c exited with code 0: gcc or g++ wrote the binary
CompilerExitedZero(c) ==
  language[c] \in {"c", "cpp"} /\ base_name[c] \in made[c]

\* C25: _compile_code reports success exactly when the compiler exits with
\* code 0 within the timeout: a program whose compiler exited 0 goes on to
\* its test cases and is never reported as a compilation error.
C25_CompiledProgramRuns ==
  \A c \in Calls :
    (pc[c] \notin {"off", "compile_wait"} /\ CompilerExitedZero(c)) =>
      compiled[c] = "ok"


\* C26: the merged list has exactly one entry per condition declared on the
\* problem, in declaration order, whether the semantic evaluator returned
\* fewer results than conditions, as many, or more.
C26_OneMergedEntryPerCondition ==
  cpc = "merged" =>
    /\ Len(merged) = Len(conds)
    /\ \A i \in DOMAIN merged : merged[i].condition = conds[i].condition

\* C27: check_all_conditions never raises, whatever the text and the check
\* type of the conditions: it returns a result for every condition.
C27_CheckAllNeverRaises ==
  /\ cexc \notin {"re.error", "AttributeError"}
  /\ (cpc \in {"gpt", "merge", "merged"} /\ conds # <<>>) => Len(rule_checks) = Len(conds)

\* C28: run_code returns a result record and does not raise when the
\* language is not in the registry.
C28_UnregisteredLanguageReturns ==
  \A c \in Calls :
    (Done(c) /\ language[c] \notin Registered) => out[c].kind = "return"


\* C29: once a presence connection that sent 'join' has ended, by a leave
\* and a disconnect, by a disconnect alone or by an error while a message
\* is handled, the session it joined as is not active any more, so it does
\* not count in a later presence_update.
C29_EndedConnectionIsInactive ==
  \A w \in Conns :
    (ws_conn[w].st = "closed" /\ ws_conn[w].joined_as # NoSession) =>
      redis_data[ws_conn[w].joined_as] # "True"


\* C30: a user who is not a member of an existing group and has no PENDING
\* request can always create a join request, also after an earlier request
\* was accepted and the membership was removed again.
C30_NonMemberCanRequest ==
  ( /\ grp_last.op = "create"
    /\ grp_exists
    /\ ~grp_last.was_member
    /\ ~grp_last.had_pending )
  => grp_last.status = "created"

====
